---- MODULE Spec2Model ----
(***************************************************************************)
(* Model of string-to-drizzle-orm-filters: the Lexer (src/src/lexer.ts),   *)
(* the recursive-descent Parser (src/src/parser.ts), the FilterGenerator   *)
(* (src/src/generator.ts) and convertStringToDrizzleFilter                 *)
(* (src/src/index.ts).                                                     *)
(*                                                                         *)
(* The input string is a sequence of one-character strings.  Token values, *)
(* function names and error messages are TLA+ strings built with \o, so    *)
(* they are the texts the code builds.  A thrown exception is a result     *)
(* record with ok = FALSE that every caller hands on unchanged.            *)
(***************************************************************************)
EXTENDS Integers, Sequences, FiniteSets, TLC

\* ------------------------------------------------------------------ bounds

\* Number of pieces (lexemes) an input is typed in, at most.
MaxPieces == 6

\* Number of whitespace characters in an input, at most.
MaxSpaces == 1

\* Length of the strings a Lexer is run over exhaustively, at most.
MaxChars == 3

\* Number of nextToken() calls on one Lexer, at most.
MaxCalls == 8

\* Number of reset() calls on one Lexer, at most.
MaxResets == 1

\* Number of arguments of the top-level call of an AST handed to generate(),
\* at most.
MaxArgs == 2

\* How many calls a client makes on one Lexer/Parser pair.
MaxSteps == 3

\* ------------------------------------------------------------- characters

QUOTE == "\""

BACKSLASH == "\\"

\* ------------------------------------------------------------------ Lexer

TokenType ==
    [ Identifier    |-> "IDENTIFIER",
      StringLiteral |-> "STRING_LITERAL",
      LParen        |-> "LPAREN",
      RParen        |-> "RPAREN",
      Comma         |-> "COMMA",
      Whitespace    |-> "WHITESPACE",
      EOF           |-> "EOF",
      Unknown       |-> "UNKNOWN" ]

\* isLetter taking a digit for a letter.
isLetter_OrDigit(char) ==
    char \in { "a", "b", "c", "d", "e", "f", "g", "h", "i", "j", "k", "l", "m",
               "n", "o", "p", "q", "r", "s", "t", "u", "v", "w", "x", "y", "z",
               "1" }

\* (char >= 'a' && char <= 'z') || (char >= 'A' && char <= 'Z')
isLetter(char) ==
    char \in { "a","b","c","d","e","f","g","h","i","j","k","l","m",
               "n","o","p","q","r","s","t","u","v","w","x","y","z",
               "A","B","C","D","E","F","G","H","I","J","K","L","M",
               "N","O","P","Q","R","S","T","U","V","W","X","Y","Z" }

\* /\s/.test(char), on the whitespace characters an input here can hold
isWhitespace(char) ==
    char \in { " ", "\t", "\n" }

createToken(type, value, position) ==
    [ type |-> type, value |-> value, position |-> position ]

\* A returned token together with the cursor the call leaves behind.
Returned(token, pos) ==
    [ ok |-> TRUE, token |-> token, pos |-> pos ]

\* throw new Error(message), with the cursor the call leaves behind.
LexerThrown(message, pos) ==
    [ ok |-> FALSE, class |-> "Error", message |-> message, pos |-> pos ]

\* reset leaving the cursor where it is.
reset_KeepsCursor(pos) ==
    pos

\* reset(): the cursor it leaves behind.
reset(pos) ==
    0

\* advanceAndCreateToken leaving the cursor on the character.
advanceAndCreateToken_NoAdvance(type, value, pos) ==
    Returned(createToken(type, value, pos), pos)

advanceAndCreateToken(type, value, pos) ==
    Returned(createToken(type, value, pos), pos + 1)

\* skipWhitespace skipping nothing.
skipWhitespace_None(in, pos) ==
    pos

RECURSIVE skipWhitespace(_, _)
skipWhitespace(in, pos) ==
    IF pos < Len(in) /\ isWhitespace(in[pos + 1])
    THEN skipWhitespace(in, pos + 1)
    ELSE pos

\* The loop of readStringLiteral dropping the backslash of an escape.
RECURSIVE StringScan(_, _, _)
StringScan_Unescape(in, pos, value) ==
    IF pos < Len(in) /\ in[pos + 1] # QUOTE
    THEN IF in[pos + 1] = BACKSLASH /\ pos + 1 < Len(in)
         THEN StringScan(in, pos + 2, value \o in[pos + 2])
         ELSE StringScan(in, pos + 1, value \o in[pos + 1])
    ELSE [ pos |-> pos, value |-> value ]

\* The loop of readStringLiteral taking two characters for every backslash,
\* the last character of the input too.
StringScan_EscapeAtEnd(in, pos, value) ==
    IF pos < Len(in) /\ in[pos + 1] # QUOTE
    THEN IF in[pos + 1] = BACKSLASH
         THEN StringScan(in, pos + 2,
                         (value \o in[pos + 1])
                             \o (IF pos + 1 < Len(in) THEN in[pos + 2]
                                 ELSE "undefined"))
         ELSE StringScan(in, pos + 1, value \o in[pos + 1])
    ELSE [ pos |-> pos, value |-> value ]

\* The while loop of readStringLiteral: the cursor and the value it ends with.
StringScan(in, pos, value) ==
    IF pos < Len(in) /\ in[pos + 1] # QUOTE
    THEN IF in[pos + 1] = BACKSLASH /\ pos + 1 < Len(in)
         THEN StringScan(in, pos + 2, (value \o in[pos + 1]) \o in[pos + 2])
         ELSE StringScan(in, pos + 1, value \o in[pos + 1])
    ELSE [ pos |-> pos, value |-> value ]

\* The message naming the cursor the scan has reached.
UnclosedMessage_Cursor(startPos, pos) ==
    "Unclosed string literal starting at position " \o ToString(pos)

UnclosedMessage(startPos, pos) ==
    "Unclosed string literal starting at position " \o ToString(startPos)

\* readStringLiteral returning what it has read when the input ends.
readStringLiteral_NoThrow(in, startPos) ==
    Returned(createToken(TokenType.StringLiteral,
                         StringScan(in, startPos + 1, "").value, startPos),
             StringScan(in, startPos + 1, "").pos)

\* readStringLiteral putting the cursor back on the opening quote when it
\* throws.
readStringLiteral_RestoresCursor(in, startPos) ==
    IF StringScan(in, startPos + 1, "").pos >= Len(in)
    THEN LexerThrown(UnclosedMessage(startPos,
                                     StringScan(in, startPos + 1, "").pos),
                     startPos)
    ELSE Returned(createToken(TokenType.StringLiteral,
                              StringScan(in, startPos + 1, "").value,
                              startPos),
                  StringScan(in, startPos + 1, "").pos + 1)

readStringLiteral(in, startPos) ==
    LET scan == StringScan(in, startPos + 1, "")
    IN  IF scan.pos >= Len(in)
        THEN LexerThrown(UnclosedMessage(startPos, scan.pos), scan.pos)
        ELSE Returned(createToken(TokenType.StringLiteral, scan.value, startPos),
                      scan.pos + 1)

\* The loop of readIdentifier taking digits too.
RECURSIVE IdentifierScan(_, _, _)
IdentifierScan_WithDigits(in, pos, value) ==
    IF pos < Len(in) /\ (isLetter(in[pos + 1]) \/ in[pos + 1] \in { "1", "2", "3" })
    THEN IdentifierScan(in, pos + 1, value \o in[pos + 1])
    ELSE [ pos |-> pos, value |-> value ]

\* The while loop of readIdentifier.
IdentifierScan(in, pos, value) ==
    IF pos < Len(in) /\ isLetter(in[pos + 1])
    THEN IdentifierScan(in, pos + 1, value \o in[pos + 1])
    ELSE [ pos |-> pos, value |-> value ]

\* readIdentifier giving the token the position its lexeme ends at.
readIdentifier_EndPosition(in, startPos) ==
    Returned(createToken(TokenType.Identifier,
                         IdentifierScan(in, startPos, "").value,
                         IdentifierScan(in, startPos, "").pos),
             IdentifierScan(in, startPos, "").pos)

\* readIdentifier leaving the cursor at the start of the identifier.
readIdentifier_NoAdvance(in, startPos) ==
    Returned(createToken(TokenType.Identifier,
                         IdentifierScan(in, startPos, "").value, startPos),
             startPos)

readIdentifier(in, startPos) ==
    LET scan == IdentifierScan(in, startPos, "")
    IN  Returned(createToken(TokenType.Identifier, scan.value, startPos), scan.pos)

\* nextToken() returning a Whitespace token for a whitespace character
\* instead of skipping it.
nextToken_WhitespaceToken(in, cur) ==
    IF cur >= Len(in)
    THEN Returned(createToken(TokenType.EOF, "", cur), cur)
    ELSE CASE isWhitespace(in[cur + 1]) ->
                  advanceAndCreateToken(TokenType.Whitespace, in[cur + 1], cur)
           [] in[cur + 1] = "(" ->
                  advanceAndCreateToken(TokenType.LParen, in[cur + 1], cur)
           [] in[cur + 1] = ")" ->
                  advanceAndCreateToken(TokenType.RParen, in[cur + 1], cur)
           [] in[cur + 1] = "," ->
                  advanceAndCreateToken(TokenType.Comma, in[cur + 1], cur)
           [] in[cur + 1] = QUOTE -> readStringLiteral(in, cur)
           [] OTHER -> IF isLetter(in[cur + 1])
                       THEN readIdentifier(in, cur)
                       ELSE advanceAndCreateToken(TokenType.Unknown,
                                                  in[cur + 1], cur)

\* Lexer.nextToken() with the cursor at cur.
nextToken(in, cur) ==
    LET pos == skipWhitespace(in, cur)
    IN  IF pos >= Len(in)
        THEN Returned(createToken(TokenType.EOF, "", pos), pos)
        ELSE LET char == in[pos + 1]
             IN  CASE char = "(" -> advanceAndCreateToken(TokenType.LParen, char, pos)
                   [] char = ")" -> advanceAndCreateToken(TokenType.RParen, char, pos)
                   [] char = "," -> advanceAndCreateToken(TokenType.Comma, char, pos)
                   [] char = QUOTE -> readStringLiteral(in, pos)
                   [] OTHER -> IF isLetter(char)
                               THEN readIdentifier(in, pos)
                               ELSE advanceAndCreateToken(TokenType.Unknown, char, pos)

\* ----------------------------------------------------------------- Parser

\* The lookahead of a Parser on which parse() has not run: null.  A template
\* string prints a field of null as "undefined".
NoToken ==
    [ type |-> "undefined", value |-> "undefined", position |-> -1 ]

\* A Parser's mutable state while parse() runs: the cursor of its Lexer and
\* its lookahead.  With them go the calls parse() has made on its Lexer so
\* far and the number of tokens it has consumed.
ParserState(pos, lookahead) ==
    [ pos |-> pos, lookahead |-> lookahead, lexerCalls |-> << >>,
      consumed |-> 0 ]

\* One call of this.lexer.nextToken(): the token it returned (none when it
\* threw), how many tokens the Parser had consumed when it made it, and the
\* cursor of the Lexer before and after it.
LexerCall(r, st) ==
    [ method |-> "nextToken",
      returned |-> IF r.ok THEN r.token.type ELSE "Error",
      consumed |-> st.consumed,
      from |-> st.pos,
      to |-> r.pos ]

\* The state after this.lexer.nextToken() did r.
AfterLexerCall(st, r) ==
    [ st EXCEPT !.pos = r.pos,
                !.lexerCalls = Append(@, LexerCall(r, st)) ]

\* The state after const token = this.lookahead passed the check of
\* consume(): the token is consumed.
Taken(st) ==
    [ st EXCEPT !.consumed = @ + 1 ]

\* A normal return of a parser method: the state it leaves and its value.
Ok(st, value) ==
    [ ok |-> TRUE, st |-> st, value |-> value ]

\* A ParserError thrown without its token.
ParserError_NoToken(message, token, st) ==
    [ ok |-> FALSE, class |-> "ParserError", message |-> message,
      token |-> NoToken, st |-> st ]

\* throw new ParserError(message, token)
ParserError(message, token, st) ==
    [ ok |-> FALSE, class |-> "ParserError", message |-> message,
      token |-> token, st |-> st ]

\* An Error thrown by lexer.nextToken() passing through the parser; the
\* assignment to lookahead did not happen.
LexerError(r, st) ==
    [ ok |-> FALSE, class |-> r.class, message |-> r.message,
      token |-> NoToken, st |-> AfterLexerCall(st, r) ]

\* match() never seeing a closing parenthesis.
match_NotRParen(st, type) ==
    type # TokenType.RParen /\ st.lookahead.type = type

match(st, type) ==
    st.lookahead.type = type

\* A call that may throw, and what follows it: an exception thrown by the
\* call leaves the method at once, otherwise the method goes on with the
\* call's result.
Then(r, Rest(_)) ==
    IF r.ok THEN Rest(r) ELSE r

DefaultConsumeMessage(token, expectedType) ==
    "Unexpected token '" \o token.value \o "' (type " \o token.type
        \o "). Expected " \o expectedType \o "."

\* this.lookahead = this.lexer.nextToken(); return token;  with r what
\* nextToken() returned or threw.
Fetched(r, st) ==
    IF r.ok
    THEN Ok([ AfterLexerCall(st, r) EXCEPT !.lookahead = r.token ],
            st.lookahead)
    ELSE LexerError(r, st)

\* consume dropping the message it is given.
consume_IgnoresMessage(in, st, expectedType, errorMessage) ==
    IF st.lookahead = NoToken \/ st.lookahead.type # expectedType
    THEN ParserError(DefaultConsumeMessage(st.lookahead, expectedType),
                     st.lookahead, st)
    ELSE Fetched(nextToken(in, st.pos), Taken(st))

\* consume calling nextToken() twice, so dropping a token.
consume_FetchesTwice(in, st, expectedType, errorMessage) ==
    IF st.lookahead = NoToken \/ st.lookahead.type # expectedType
    THEN ParserError(IF errorMessage # "" THEN errorMessage
                     ELSE DefaultConsumeMessage(st.lookahead, expectedType),
                     st.lookahead, st)
    ELSE Then(Fetched(nextToken(in, st.pos), Taken(st)), LAMBDA first :
         Then(Fetched(nextToken(in, first.st.pos), first.st), LAMBDA second :
             Ok(second.st, first.value)))

\* errorMessage = "" stands for the omitted argument: both are falsy in
\* errorMessage || `...`.
consume(in, st, expectedType, errorMessage) ==
    IF st.lookahead = NoToken \/ st.lookahead.type # expectedType
    THEN ParserError(IF errorMessage # "" THEN errorMessage
                     ELSE DefaultConsumeMessage(st.lookahead, expectedType),
                     st.lookahead, st)
    ELSE Fetched(nextToken(in, st.pos), Taken(st))

LogicalOperatorMessage(operatorToken) ==
    "Unexpected logical operator '" \o operatorToken.value
        \o "' not in a function call."

CloseExpressionMessage(expression, lookahead) ==
    "Expected ')' to close expression started at position "
        \o (IF expression.kind = "CallExpression"
            THEN ToString(lookahead.position) ELSE "unknown")
        \o "."

PrimaryMessage(lookahead) ==
    "Unexpected token '" \o lookahead.value \o "' (type " \o lookahead.type
        \o "). Expected a function call or a '('."

FunctionNameMessage(lookahead) ==
    "Expected a function name (identifier) but got '" \o lookahead.value
        \o "' (type " \o lookahead.type \o ")."

OpenCallMessage(functionNameToken) ==
    "Expected '(' after function name '" \o functionNameToken.value \o "'."

CloseCallMessage(functionNameToken) ==
    "Expected ')' to close function call '" \o functionNameToken.value \o "'."

StringLiteralMessage(lookahead) ==
    "Expected a staring literal but got '" \o lookahead.value
        \o "' (type " \o lookahead.type \o ")."

ArgumentMessage(lookahead) ==
    "Unexpected token '" \o lookahead.value \o "' (type " \o lookahead.type
        \o "). Expected a string literal or a nested function call as an argument."

EndOfInputMessage(lookahead) ==
    "Unexpected token '" \o lookahead.value \o "' at position "
        \o ToString(lookahead.position) \o ". Expected end of input."

CallExpression(functionName, args) ==
    [ kind |-> "CallExpression", functionName |-> functionName, args |-> args ]

StringLiteral(value) ==
    [ kind |-> "StringLiteral", value |-> value ]

Program(expression) ==
    [ kind |-> "Program", expression |-> expression ]

RECURSIVE parseLogicalExpression(_, _)
RECURSIVE parsePrimaryExpression(_, _)
RECURSIVE parseCallExpression(_, _)
RECURSIVE parseArguments(_, _)
RECURSIVE ArgumentsLoop(_, _, _)
RECURSIVE parseArgument(_, _)

\* The while loop of parseLogicalExpression: its body throws in its first
\* iteration.
isLogicalOperator(st) ==
    match(st, TokenType.Identifier)
        /\ (st.lookahead.value = "and" \/ st.lookahead.value = "or")

parseLogicalExpression(in, st) ==
    Then(parsePrimaryExpression(in, st), LAMBDA expression :
        IF isLogicalOperator(expression.st)
        THEN Then(consume(in, expression.st, TokenType.Identifier, ""),
                  LAMBDA operatorToken :
                      ParserError(LogicalOperatorMessage(operatorToken.value),
                                  operatorToken.value, operatorToken.st))
        ELSE expression)

parseExpression(in, st) ==
    parseLogicalExpression(in, st)

\* parsePrimaryExpression keeping a node for the parentheses of a group.
parsePrimaryExpression_KeepsGroup(in, st) ==
    IF match(st, TokenType.LParen)
    THEN Then(consume(in, st, TokenType.LParen, ""), LAMBDA open :
         Then(parseLogicalExpression(in, open.st), LAMBDA expression :
         Then(consume(in, expression.st, TokenType.RParen,
                      CloseExpressionMessage(expression.value,
                                             expression.st.lookahead)),
              LAMBDA close :
                  Ok(close.st,
                     [ kind |-> "Group", expression |-> expression.value ]))))
    ELSE IF match(st, TokenType.Identifier)
    THEN parseCallExpression(in, st)
    ELSE ParserError(PrimaryMessage(st.lookahead), st.lookahead, st)

\* parsePrimaryExpression throwing the argument message in its last branch.
parsePrimaryExpression_ArgumentMessage(in, st) ==
    IF match(st, TokenType.LParen)
    THEN Then(consume(in, st, TokenType.LParen, ""), LAMBDA open :
         Then(parseLogicalExpression(in, open.st), LAMBDA expression :
         Then(consume(in, expression.st, TokenType.RParen,
                      CloseExpressionMessage(expression.value,
                                             expression.st.lookahead)),
              LAMBDA close : Ok(close.st, expression.value))))
    ELSE IF match(st, TokenType.Identifier)
    THEN parseCallExpression(in, st)
    ELSE ParserError(ArgumentMessage(st.lookahead), st.lookahead, st)

parsePrimaryExpression(in, st) ==
    IF match(st, TokenType.LParen)
    THEN Then(consume(in, st, TokenType.LParen, ""), LAMBDA open :
         Then(parseLogicalExpression(in, open.st), LAMBDA expression :
         Then(consume(in, expression.st, TokenType.RParen,
                      CloseExpressionMessage(expression.value,
                                             expression.st.lookahead)),
              LAMBDA close : Ok(close.st, expression.value))))
    ELSE IF match(st, TokenType.Identifier)
    THEN parseCallExpression(in, st)
    ELSE ParserError(PrimaryMessage(st.lookahead), st.lookahead, st)

\* parseCallExpression naming the '(' token in the message for a missing ')'.
parseCallExpression_CloseNamesParen(in, st) ==
    Then(consume(in, st, TokenType.Identifier, FunctionNameMessage(st.lookahead)),
         LAMBDA functionNameToken :
    Then(consume(in, functionNameToken.st, TokenType.LParen,
                 OpenCallMessage(functionNameToken.value)),
         LAMBDA open :
    Then(parseArguments(in, open.st), LAMBDA args :
    Then(consume(in, args.st, TokenType.RParen, CloseCallMessage(open.value)),
         LAMBDA close :
             Ok(close.st,
                CallExpression(functionNameToken.value.value, args.value))))))

parseCallExpression(in, st) ==
    Then(consume(in, st, TokenType.Identifier, FunctionNameMessage(st.lookahead)),
         LAMBDA functionNameToken :
    Then(consume(in, functionNameToken.st, TokenType.LParen,
                 OpenCallMessage(functionNameToken.value)),
         LAMBDA open :
    Then(parseArguments(in, open.st), LAMBDA args :
    Then(consume(in, args.st, TokenType.RParen,
                 CloseCallMessage(functionNameToken.value)),
         LAMBDA close :
             Ok(close.st,
                CallExpression(functionNameToken.value.value, args.value))))))

\* ArgumentsLoop putting each further argument in front of the earlier ones.
ArgumentsLoop_Unshift(in, st, args) ==
    IF match(st, TokenType.Comma)
    THEN Then(consume(in, st, TokenType.Comma, ""), LAMBDA comma :
         Then(parseArgument(in, comma.st), LAMBDA arg :
             ArgumentsLoop(in, arg.st, << arg.value >> \o args)))
    ELSE Ok(st, args)

\* while (this.match(TokenType.Comma)) { consume; args.push(parseArgument()) }
ArgumentsLoop(in, st, args) ==
    IF match(st, TokenType.Comma)
    THEN Then(consume(in, st, TokenType.Comma, ""), LAMBDA comma :
         Then(parseArgument(in, comma.st), LAMBDA arg :
             ArgumentsLoop(in, arg.st, Append(args, arg.value))))
    ELSE Ok(st, args)

\* parseArguments without its check for an empty argument list.
parseArguments_NoEmptyList(in, st) ==
    Then(parseArgument(in, st), LAMBDA first :
        ArgumentsLoop(in, first.st, << first.value >>))

parseArguments(in, st) ==
    IF match(st, TokenType.RParen)
    THEN Ok(st, << >>)
    ELSE Then(parseArgument(in, st), LAMBDA first :
             ArgumentsLoop(in, first.st, << first.value >>))

\* parseArgument throwing the primary-expression message in its last branch.
parseArgument_PrimaryMessage(in, st) ==
    IF match(st, TokenType.StringLiteral)
    THEN Then(consume(in, st, TokenType.StringLiteral,
                      StringLiteralMessage(st.lookahead)),
              LAMBDA stringToken :
                  Ok(stringToken.st, StringLiteral(stringToken.value.value)))
    ELSE IF match(st, TokenType.Identifier)
    THEN parseCallExpression(in, st)
    ELSE ParserError(PrimaryMessage(st.lookahead), st.lookahead, st)

parseArgument(in, st) ==
    IF match(st, TokenType.StringLiteral)
    THEN Then(consume(in, st, TokenType.StringLiteral,
                      StringLiteralMessage(st.lookahead)),
              LAMBDA stringToken :
                  Ok(stringToken.st, StringLiteral(stringToken.value.value)))
    ELSE IF match(st, TokenType.Identifier)
    THEN parseCallExpression(in, st)
    ELSE ParserError(ArgumentMessage(st.lookahead), st.lookahead, st)

\* parse() keeping the lookahead an earlier parse() left, when there is one.
FirstToken_KeepsLookahead(r, cur, la) ==
    IF la # NoToken THEN Ok(ParserState(cur, la), la)
    ELSE IF r.ok
    THEN Ok([ AfterLexerCall(ParserState(cur, la), r) EXCEPT
                  !.lookahead = r.token ],
            r.token)
    ELSE LexerError(r, ParserState(cur, la))

\* this.lookahead = this.lexer.nextToken() at the start of parse(), with r
\* what nextToken() returned or threw.
FirstToken(r, cur, la) ==
    IF r.ok
    THEN Ok([ AfterLexerCall(ParserState(cur, la), r) EXCEPT
                  !.lookahead = r.token ],
            r.token)
    ELSE LexerError(r, ParserState(cur, la))

\* parse() without its check that the expression is followed by EOF.
parse_NoEndCheck(in, cur, la) ==
    Then(FirstToken(nextToken(in, cur), cur, la), LAMBDA first :
    Then(parseExpression(in, first.st), LAMBDA expression :
        Ok(expression.st, Program(expression.value))))

\* Parser.parse() on a Parser whose Lexer has its cursor at cur and whose
\* lookahead is la.
parse(in, cur, la) ==
    Then(FirstToken(nextToken(in, cur), cur, la), LAMBDA first :
    Then(parseExpression(in, first.st), LAMBDA expression :
        IF expression.st.lookahead.type # TokenType.EOF
        THEN ParserError(EndOfInputMessage(expression.st.lookahead),
                         expression.st.lookahead, expression.st)
        ELSE Ok(expression.st, Program(expression.value))))

\* -------------------------------------------------------- FilterGenerator

\* The keys of this.drizzleOperators.
DrizzleOperatorNames ==
    { "eq", "and", "or", "like", "ilike", "gt", "gte", "lt", "lte",
      "isNull", "isNotNull", "not", "inArray", "between", "notBetween" }

\* The list isComparisonOperator is tested against.
ComparisonOperatorNames ==
    { "eq", "ne", "gt", "gte", "lt", "lte", "like", "ilike",
      "isNull", "isNotNull", "inArray", "between", "notBetween" }

\* The values the generator handles.  Each is a record with a kind, so that
\* any two of them can be compared.
\* arg.value, a string
StringValue(s) ==
    [ kind |-> "string", value |-> s ]

\* A value of the column map: a column of drizzle-orm.
Column(name) ==
    [ kind |-> "column", name |-> name ]

\* What a drizzle-orm operator returns: the operators are drizzle-orm's, and
\* their result is kept as the call itself.
DrizzleCall(functionName, processedArgs) ==
    [ kind |-> "sql", sql |-> functionName, args |-> processedArgs ]

\* undefined: what generate() returns for a Program without expression, what
\* a property lookup finds for a missing key, what drizzle-orm's and() and
\* or() return when no condition is left.
Undefined ==
    [ kind |-> "undefined", sql |-> "undefined", args |-> << >> ]

\* The members every object literal inherits from Object.prototype: both
\* drizzleOperators and a column map written as { ... } have them.
ObjectPrototypeNames ==
    { "constructor", "toString", "toLocaleString", "valueOf",
      "hasOwnProperty", "isPrototypeOf", "propertyIsEnumerable", "__proto__" }

\* The member found under one of those names.
Inherited(key) ==
    [ kind |-> "inherited", name |-> key ]

\* What Object(...) and false are to the generator: results of inherited
\* members that were called.
ObjectValue(args) ==
    [ kind |-> "object", args |-> args ]

BooleanValue(b) ==
    [ kind |-> "boolean", value |-> b ]

\* object[key], as in this.drizzleOperators[node.functionName] and
\* this.columnMap[arg.value]: the own property, else the inherited member,
\* else undefined.
Get(object, key) ==
    IF key \in DOMAIN object THEN object[key]
    ELSE IF key \in ObjectPrototypeNames THEN Inherited(key)
    ELSE Undefined

\* if (v), if (!v) for the values a lookup finds: objects and functions are
\* truthy, undefined is not.
Truthy(v) ==
    v.kind # Undefined.kind

\* An operator imported from drizzle-orm.  The package is not part of the
\* repository; behaviour says what a call of the operator does:
\*   "sql"        it returns an SQL expression,
\*   "conditions" it returns an SQL expression of its arguments, and
\*                undefined when it is given none (drizzle-orm's and, or),
\*   "throws"     it throws an Error.
Operator(name, behaviour) ==
    [ kind |-> "operator", name |-> name, behaviour |-> behaviour ]

\* new FilterGenerator(columnMap), with the operators its import found.
FilterGenerator(columnMap, imported) ==
    [ columnMap |-> columnMap,
      drizzleOperators |->
          [ name \in DrizzleOperatorNames |-> Operator(name, imported[name]) ] ]

\* One call made by handleCallExpression: what was called, and with what.
Invocation(callee, processedArgs) ==
    [ callee |-> callee, args |-> processedArgs ]

\* A value returned; invoked lists the calls made so far, in order.
Generated(value, invoked) ==
    [ ok |-> TRUE, value |-> value, invoked |-> invoked ]

\* throw new ParserError(message), with no token
GeneratorError(message, invoked) ==
    [ ok |-> FALSE, class |-> "ParserError", message |-> message,
      token |-> NoToken, invoked |-> invoked ]

UnsupportedMessage(functionName) ==
    "Unsupported Drizzle ORM function: '" \o functionName \o "'."

\* One member of processedArgs.map(a => ...) in the catch clause.  For a
\* string this is JSON.stringify, written for texts it has nothing to escape
\* in; a function is stringified to undefined, which join() leaves empty.
ArgumentText(a) ==
    CASE a.kind = "string" -> QUOTE \o a.value \o QUOTE
      [] a.kind \in { "column", "sql" } -> "[object Object]"
      [] a.kind = "boolean" -> "false"
      [] a.kind \in { "inherited", "operator" } /\ a.name # "__proto__" -> ""
      [] OTHER -> "{}"

\* processedArgs.map(...).join(', ') from member i on
RECURSIVE JoinArguments(_, _)
JoinArguments(processedArgs, i) ==
    IF i > Len(processedArgs) THEN ""
    ELSE IF i = Len(processedArgs) THEN ArgumentText(processedArgs[i])
    ELSE ArgumentText(processedArgs[i]) \o ", "
             \o JoinArguments(processedArgs, i + 1)

CallErrorMessage(functionName, processedArgs, message) ==
    "Error calling Drizzle function '" \o functionName
        \o "' with arguments [" \o JoinArguments(processedArgs, 1)
        \o "]. Original error: " \o message

\* e.message of what a failing call throws: the text is the engine's or
\* drizzle-orm's, and is kept as the name of what failed.
OriginalError(callee) ==
    "<" \o callee.name \o " failed>"

\* The members of Object.prototype that return when they are called as
\* drizzleFunction(...processedArgs), that is without a receiver:
\* constructor is Object, toString answers for undefined, isPrototypeOf
\* answers false for an argument that is no object.  The others throw a
\* TypeError, and __proto__ is no function.
InheritedReturns(callee, processedArgs) ==
    \/ callee.name \in { "constructor", "toString" }
    \/ /\ callee.name = "isPrototypeOf"
       /\ \/ processedArgs = << >>
          \/ processedArgs[1].kind \in { "string", "boolean" }

InheritedResult(callee, processedArgs) ==
    CASE callee.name = "constructor" -> ObjectValue(processedArgs)
      [] callee.name = "toString" -> StringValue("[object Undefined]")
      [] OTHER -> BooleanValue(FALSE)

\* Whether drizzleFunction(...processedArgs) returns.
CallReturns(callee, processedArgs) ==
    IF callee.kind = "operator" THEN callee.behaviour # "throws"
    ELSE InheritedReturns(callee, processedArgs)

\* What it returns then.
CallResult(callee, processedArgs) ==
    IF callee.kind # "operator" THEN InheritedResult(callee, processedArgs)
    ELSE IF callee.behaviour = "conditions" /\ processedArgs = << >>
    THEN Undefined
    ELSE DrizzleCall(callee.name, processedArgs)

\* try { return drizzleFunction(...processedArgs) } catch (e) { throw ... }
CallDrizzleFunction(callee, functionName, processedArgs, invoked) ==
    IF CallReturns(callee, processedArgs)
    THEN Generated(CallResult(callee, processedArgs),
                   Append(invoked, Invocation(callee, processedArgs)))
    ELSE GeneratorError(CallErrorMessage(functionName, processedArgs,
                                         OriginalError(callee)),
                        Append(invoked, Invocation(callee, processedArgs)))

isComparisonOperator(functionName) ==
    functionName \in ComparisonOperatorNames

\* One step of node.args.map(...): a literal becomes its column or its value.
ProcessLiteral(this, functionName, arg) ==
    IF isComparisonOperator(functionName)
           /\ Truthy(Get(this.columnMap, arg.value))
    THEN Get(this.columnMap, arg.value)
    ELSE StringValue(arg.value)

\* .filter(val => val !== undefined)
FilterDefined(processed) ==
    SelectSeq(processed, LAMBDA val : val # Undefined)

RECURSIVE traverseNode(_, _, _)
RECURSIVE ProcessArgs(_, _, _, _, _)

\* node.args.map(...) from argument i on; processed holds the results so far.
ProcessArgs(this, node, i, processed, invoked) ==
    IF i > Len(node.args) THEN Generated(processed, invoked)
    ELSE IF node.args[i].kind = "StringLiteral"
    THEN ProcessArgs(this, node, i + 1,
                     Append(processed,
                            ProcessLiteral(this, node.functionName,
                                           node.args[i])),
                     invoked)
    ELSE IF node.args[i].kind = "CallExpression"
    THEN Then(traverseNode(this, node.args[i], invoked), LAMBDA inner :
             ProcessArgs(this, node, i + 1, Append(processed, inner.value),
                         inner.invoked))
    ELSE ProcessArgs(this, node, i + 1, Append(processed, Undefined), invoked)

handleCallExpression(this, node, invoked) ==
    IF ~Truthy(Get(this.drizzleOperators, node.functionName))
    THEN GeneratorError(UnsupportedMessage(node.functionName), invoked)
    ELSE Then(ProcessArgs(this, node, 1, << >>, invoked),
              LAMBDA processedArgs :
                  CallDrizzleFunction(
                      Get(this.drizzleOperators, node.functionName),
                      node.functionName,
                      FilterDefined(processedArgs.value),
                      processedArgs.invoked))

traverseNode(this, node, invoked) ==
    IF node.kind = "CallExpression"
    THEN handleCallExpression(this, node, invoked)
    ELSE IF node.kind = "StringLiteral"
    THEN GeneratorError("Unexpected StringLiteral as a top-level filter "
                            \o node.value, invoked)
    ELSE GeneratorError("Unknown AST node kind: " \o node.kind, invoked)

\* A Program without an expression: expression is null.
NoExpression ==
    [ kind |-> "null" ]

generate(this, ast) ==
    IF ast.expression.kind = NoExpression.kind
    THEN Generated(Undefined, << >>)
    ELSE traverseNode(this, ast.expression, << >>)

\* ------------------------------------------- convertStringToDrizzleFilter

\* What a caller of parse() or convertStringToDrizzleFilter sees of r: the
\* value returned, or the exception thrown.
Outcome(r) ==
    IF r.ok
    THEN [ ok |-> TRUE, value |-> r.value ]
    ELSE [ ok |-> FALSE, class |-> r.class, message |-> r.message,
           token |-> r.token ]

\* The operators as the package drizzle-orm exports them: and and or answer
\* undefined when no condition is left, the others build an SQL expression.
DrizzleOrm ==
    [ name \in DrizzleOperatorNames |->
        IF name \in { "and", "or" } THEN "conditions" ELSE "sql" ]

\* generator.generate(ast), with ast what parser.parse() returned or threw.
GenerateParsed(ast, columnMap) ==
    IF ast.ok
    THEN generate(FilterGenerator(columnMap, DrizzleOrm), ast.value)
    ELSE Outcome(ast)

convertStringToDrizzleFilter(expressionString, columnMap) ==
    GenerateParsed(parse(expressionString, 0, NoToken), columnMap)

\* ------------------------------------------------------------ the machine

VARIABLES
    input,            \* the expression string, one character per element
    pieces,           \* how many pieces it was typed in
    junk,             \* pieces typed from the one at which parsing fails early
    phase,            \* "typing", "parsed", "converted"
    currentPosition,  \* Lexer.currentPosition of the Lexer over input
    lookahead,        \* Parser.lookahead of the Parser over that Lexer
    parsed,           \* what parser.parse() returned or threw
    converted,        \* what convertStringToDrizzleFilter returned or threw
    produced,         \* what the nextToken() calls made on the Lexer by its
                      \* client returned or threw, since the last reset()
    calls,            \* how many nextToken() calls the client has made
    resets,           \* how many reset() calls the client has made
    ast,              \* the Program handed to generator.generate()
    generator,        \* the FilterGenerator generate() is called on
    filter,           \* what generator.generate(ast) returned or threw
    instances,        \* the Lexer/Parser pairs of a client that has several
    lexerCalls,       \* the calls parse() made on its Lexer, in order
    consumed          \* how many tokens parse() consumed

vars == << input, pieces, junk, phase, currentPosition, lookahead,
           parsed, converted, produced, calls, resets, ast, generator,
           filter, instances, lexerCalls, consumed >>

\* The pieces an expression is typed in: identifiers, punctuation, closed
\* string literals, the characters of literals that are not closed, and one
\* whole call.
Pieces ==
    { << "e", "q" >>, << "a", "n", "d" >>, << "o", "r" >>,
      << "e", "q", "(", QUOTE, "a", QUOTE, ")" >>,
      << "(" >>, << ")" >>, << "," >>,
      << QUOTE, "a", QUOTE >>, << QUOTE, BACKSLASH, QUOTE, QUOTE >>,
      << QUOTE >>, << BACKSLASH >>, << BACKSLASH, QUOTE >>,
      << " " >>, << "1" >> }

\* The column map handed to convertStringToDrizzleFilter.
TheColumnMap ==
    [ a |-> Column("a") ]

\* parse() or convertStringToDrizzleFilter has not been called.
NotRun == [ ok |-> FALSE, class |-> "NotRun" ]

\* The Parser holds one token of lookahead: of the text after the token a
\* parse fails at, at most this many lexemes can ever be read.
LookaheadTokens == 1

\* The number of whitespace characters of a string.
RECURSIVE Spaces(_)
Spaces(in) ==
    IF in = << >> THEN 0
    ELSE (IF isWhitespace(Head(in)) THEN 1 ELSE 0) + Spaces(Tail(in))

\* Parsing fails before the end of the input: at a token that is not EOF, or
\* in the lexer.  Whatever is typed then comes after the failure.
FailsEarly(r) ==
    ~r.ok /\ (r.class = "Error" \/ r.token.type # TokenType.EOF)

Stuck(in) ==
    FailsEarly(parse(in, 0, NoToken))

Init ==
    /\ input = << >>
    /\ pieces = 0
    /\ junk = 0
    /\ phase = "typing"
    /\ currentPosition = 0
    /\ lookahead = NoToken
    /\ parsed = NotRun
    /\ converted = NotRun
    /\ produced = << >>
    /\ calls = 0
    /\ resets = 0
    /\ ast = Program(NoExpression)
    /\ generator = FilterGenerator(TheColumnMap, DrizzleOrm)
    /\ filter = NotRun
    /\ instances = << >>
    /\ lexerCalls = << >>
    /\ consumed = 0

\* The caller writes one more lexeme of the expression string; an identifier
\* is written as one piece.
Type(p) ==
    /\ phase = "typing"
    /\ pieces < MaxPieces
    /\ junk <= LookaheadTokens
    /\ ~(input # << >> /\ isLetter(input[Len(input)]) /\ isLetter(p[1]))
    /\ Spaces(input \o p) <= MaxSpaces
    /\ input' = input \o p
    /\ pieces' = pieces + 1
    /\ junk' = IF Stuck(input \o p) THEN junk + 1 ELSE 0
    /\ UNCHANGED << phase, currentPosition, lookahead, parsed, converted,
                    produced, calls, resets, ast, generator, filter,
                    instances, lexerCalls, consumed >>

\* parser.parse(), on the Parser over the Lexer over input
Parse ==
    /\ phase = "typing"
    /\ \E r \in { parse(input, currentPosition, lookahead) } :
           /\ parsed' = Outcome(r)
           /\ currentPosition' = r.st.pos
           /\ lookahead' = r.st.lookahead
           /\ lexerCalls' = r.st.lexerCalls
           /\ consumed' = r.st.consumed
    /\ phase' = "parsed"
    /\ UNCHANGED << input, pieces, junk, converted, produced, calls, resets,
                    ast, generator, filter,
                    instances >>

\* convertStringToDrizzleFilter(input, columnMap)
Convert ==
    /\ phase = "typing"
    /\ converted' = convertStringToDrizzleFilter(input, TheColumnMap)
    /\ phase' = "converted"
    /\ UNCHANGED << input, pieces, junk, currentPosition, lookahead, parsed,
                    produced, calls, resets, ast, generator, filter,
                    instances, lexerCalls, consumed >>

Next ==
    \/ \E p \in Pieces : Type(p)
    \/ Parse
    \/ Convert

Spec == Init /\ [][Next]_vars

\* --------------------------------------------- a Lexer used by itself

\* The characters of the strings a Lexer is run over exhaustively: one of
\* each kind nextToken() tells apart.
Alphabet ==
    { "a", "(", ")", ",", QUOTE, BACKSLASH, " ", "1" }

RECURSIVE StringsUpTo(_)
StringsUpTo(n) ==
    IF n = 0 THEN { << >> }
    ELSE StringsUpTo(n - 1)
             \cup { Append(in, c) : in \in { x \in StringsUpTo(n - 1) : Len(x) = n - 1 },
                                    c \in Alphabet }

\* Longer inputs: those of the lexer's tests and of the README.
Examples ==
    { << "e","q","(",QUOTE,"a",QUOTE,","," ",QUOTE,"b",QUOTE,")" >>,
      << " "," ","e","q"," ","(",QUOTE,"a",QUOTE,")"," " >>,
      << "u","s","e","r","1","2","3" >>,
      << "a","_","b","-","c" >>,
      << QUOTE,"a",BACKSLASH,QUOTE,"b",QUOTE,"1" >>,
      << QUOTE,BACKSLASH,BACKSLASH,QUOTE,"a" >>,
      << QUOTE,"a",","," ","(","1",")",QUOTE,")" >>,
      << "a","(",QUOTE,"a",BACKSLASH,QUOTE >>,
      << "1","2","3"," ","$" >>,
      << " ","\t","\n"," " >> }

\* What a caller of nextToken() sees of r: the token, or the Error.
Lexed(r) ==
    IF r.ok
    THEN [ ok |-> TRUE, token |-> r.token ]
    ELSE [ ok |-> FALSE, class |-> r.class, message |-> r.message ]

\* new Lexer(input)
LexerInit ==
    /\ input \in StringsUpTo(MaxChars) \cup Examples
    /\ pieces = 0
    /\ junk = 0
    /\ phase = "lexing"
    /\ currentPosition = 0
    /\ lookahead = NoToken
    /\ parsed = NotRun
    /\ converted = NotRun
    /\ produced = << >>
    /\ calls = 0
    /\ resets = 0
    /\ ast = Program(NoExpression)
    /\ generator = FilterGenerator(TheColumnMap, DrizzleOrm)
    /\ filter = NotRun
    /\ instances = << >>
    /\ lexerCalls = << >>
    /\ consumed = 0

\* lexer.nextToken()
NextToken ==
    /\ phase = "lexing"
    /\ calls < MaxCalls
    /\ \E r \in { nextToken(input, currentPosition) } :
           /\ currentPosition' = r.pos
           /\ produced' = Append(produced, Lexed(r))
    /\ calls' = calls + 1
    /\ UNCHANGED << input, pieces, junk, phase, lookahead, parsed, converted,
                    resets, ast, generator, filter,
                    instances, lexerCalls, consumed >>

\* lexer.reset()
Reset ==
    /\ phase = "lexing"
    /\ resets < MaxResets
    /\ currentPosition' = reset(currentPosition)
    /\ produced' = << >>
    /\ resets' = resets + 1
    /\ UNCHANGED << input, pieces, junk, phase, lookahead, parsed, converted,
                    calls, ast, generator, filter,
                    instances, lexerCalls, consumed >>

LexerNext ==
    \/ NextToken
    \/ Reset

LexerSpec == LexerInit /\ [][LexerNext]_vars

\* ------------------------------------ a FilterGenerator used by itself

\* The function names of the ASTs handed to generate(): the keys of
\* drizzleOperators, two names that are no member of that object, and names
\* of members it inherits.
FunctionNames ==
    DrizzleOperatorNames
        \cup { "ne", "foo" }
        \cup { "toString", "constructor", "isPrototypeOf", "valueOf",
               "__proto__" }

\* The string literals of those ASTs: a key of the column map, a text that
\* is no member of it, and the name of a member it inherits.
Literals ==
    { StringLiteral("a"), StringLiteral("x"), StringLiteral("constructor") }

\* The calls nested in them.
NestedCalls ==
    { CallExpression(f, args) :
        f \in { "eq", "or", "foo" },
        args \in { << >>, << StringLiteral("a") >>,
                   << StringLiteral("a"), StringLiteral("x") >> } }

\* What the import of drizzle-orm can have found: the package, the package
\* mocked so that every operator returns an expression (as the tests of the
\* generator do), and the package with an eq that throws.
Imports ==
    { DrizzleOrm,
      [ name \in DrizzleOperatorNames |-> "sql" ],
      [ name \in DrizzleOperatorNames |->
          IF name = "eq" THEN "throws" ELSE "sql" ] }

\* The sequences of up to n members of a set.
RECURSIVE SeqsUpTo(_, _)
SeqsUpTo(S, n) ==
    IF n = 0 THEN { << >> }
    ELSE SeqsUpTo(S, n - 1)
             \cup { Append(q, x) : q \in { y \in SeqsUpTo(S, n - 1) : Len(y) = n - 1 },
                                   x \in S }

Programs ==
    { Program(NoExpression) }
        \cup { Program(l) : l \in Literals }
        \cup { Program(CallExpression(f, args)) :
                 f \in FunctionNames,
                 args \in SeqsUpTo(Literals \cup NestedCalls, MaxArgs) }

\* new FilterGenerator(columnMap), and the Program it is going to be given
GeneratorInit ==
    /\ input = << >>
    /\ pieces = 0
    /\ junk = 0
    /\ phase = "generating"
    /\ currentPosition = 0
    /\ lookahead = NoToken
    /\ parsed = NotRun
    /\ converted = NotRun
    /\ produced = << >>
    /\ calls = 0
    /\ resets = 0
    /\ ast \in Programs
    /\ generator \in { FilterGenerator(TheColumnMap, imported) :
                          imported \in Imports }
    /\ filter = NotRun
    /\ instances = << >>
    /\ lexerCalls = << >>
    /\ consumed = 0

\* generator.generate(ast)
Generate ==
    /\ phase = "generating"
    /\ filter' = generate(generator, ast)
    /\ phase' = "generated"
    /\ UNCHANGED << input, pieces, junk, currentPosition, lookahead, parsed,
                    converted, produced, calls, resets, ast,
                    generator, instances, lexerCalls, consumed >>

GeneratorNext ==
    Generate

GeneratorSpec == GeneratorInit /\ [][GeneratorNext]_vars

\* ------------------------------------------- several Lexer/Parser pairs

\* The pairs a client holds.
Pairs ==
    { 1, 2 }

\* The inputs they are made over.
PairInputs ==
    Examples
        \cup { << "e","q","(",QUOTE,"a",QUOTE,")" >>,
               << "a","n","d","(","e","q","(",QUOTE,"a",QUOTE,")",")" >>,
               << "e","q","(",QUOTE,"a",QUOTE,")"," ","o","r" >>,
               << "e","q","(",QUOTE,"a",QUOTE >> }

\* new Parser(new Lexer(input)): the cursor at 0, no lookahead, and nothing
\* called yet.
NewPair(in) ==
    [ input |-> in, currentPosition |-> 0, lookahead |-> NoToken,
      history |-> << >> ]

\* One call made on a pair, with what it returned or threw.
Made(op, result) ==
    [ op |-> op, result |-> result ]

\* The pair after lexer.nextToken(), r being what the call did.
AfterNextToken(pair, r) ==
    [ pair EXCEPT !.currentPosition = r.pos,
                  !.history = Append(@, Made("nextToken", Lexed(r))) ]

\* The pair after parser.parse(), r being what the call did.
AfterParse(pair, r) ==
    [ pair EXCEPT !.currentPosition = r.st.pos,
                  !.lookahead = r.st.lookahead,
                  !.history = Append(@, Made("parse", Outcome(r))) ]

PairsInit ==
    /\ input = << >>
    /\ pieces = 0
    /\ junk = 0
    /\ phase = "pairs"
    /\ currentPosition = 0
    /\ lookahead = NoToken
    /\ parsed = NotRun
    /\ converted = NotRun
    /\ produced = << >>
    /\ calls = 0
    /\ resets = 0
    /\ ast = Program(NoExpression)
    /\ generator = FilterGenerator(TheColumnMap, DrizzleOrm)
    /\ filter = NotRun
    /\ instances \in { [ i \in Pairs |-> NewPair(ins[i]) ] :
                         ins \in [ Pairs -> PairInputs ] }
    /\ lexerCalls = << >>
    /\ consumed = 0

\* nextToken() on pair i were currentPosition one field shared by all Lexers.
PairNextToken_SharedCursor(i) ==
    /\ Len(instances[i].history) < MaxSteps
    /\ \E r \in { nextToken(instances[i].input,
                             instances[1].currentPosition) } :
           instances' = [ k \in Pairs |->
                            IF k = i THEN AfterNextToken(instances[k], r)
                            ELSE [ instances[k] EXCEPT
                                       !.currentPosition = r.pos ] ]
    /\ UNCHANGED << input, pieces, junk, phase, currentPosition, lookahead,
                    parsed, converted, produced, calls, resets, ast,
                    generator, filter, lexerCalls, consumed >>

\* nextToken() on the Lexer of pair i: it reads and writes the fields of
\* that Lexer only.
PairNextToken(i) ==
    /\ Len(instances[i].history) < MaxSteps
    /\ \E r \in { nextToken(instances[i].input,
                             instances[i].currentPosition) } :
           instances' = [ instances EXCEPT ![i] = AfterNextToken(@, r) ]
    /\ UNCHANGED << input, pieces, junk, phase, currentPosition, lookahead,
                    parsed, converted, produced, calls, resets, ast,
                    generator, filter, lexerCalls, consumed >>

\* parse() on pair i were currentPosition one field shared by all Lexers.
PairParse_SharedCursor(i) ==
    /\ Len(instances[i].history) < MaxSteps
    /\ \E r \in { parse(instances[i].input, instances[1].currentPosition,
                         instances[i].lookahead) } :
           instances' = [ k \in Pairs |->
                            IF k = i THEN AfterParse(instances[k], r)
                            ELSE [ instances[k] EXCEPT
                                       !.currentPosition = r.st.pos ] ]
    /\ UNCHANGED << input, pieces, junk, phase, currentPosition, lookahead,
                    parsed, converted, produced, calls, resets, ast,
                    generator, filter, lexerCalls, consumed >>

\* parse() on the Parser of pair i: it reads and writes the fields of that
\* Parser and of its Lexer only.  The call is synchronous: no call on
\* another pair happens before it has returned.
PairParse(i) ==
    /\ Len(instances[i].history) < MaxSteps
    /\ \E r \in { parse(instances[i].input, instances[i].currentPosition,
                         instances[i].lookahead) } :
           instances' = [ instances EXCEPT ![i] = AfterParse(@, r) ]
    /\ UNCHANGED << input, pieces, junk, phase, currentPosition, lookahead,
                    parsed, converted, produced, calls, resets, ast,
                    generator, filter, lexerCalls, consumed >>

PairsNext ==
    \E i \in Pairs :
        \/ PairNextToken(i)
        \/ PairParse(i)

PairsSpec == PairsInit /\ [][PairsNext]_vars

\* ------------------------------------- a Lexer/Parser pair used again

\* The pair after lexer.reset().
AfterReset(pair) ==
    [ pair EXCEPT !.currentPosition = reset(@),
                  !.history = Append(@, Made("reset", [ ok |-> TRUE ])) ]

\* One pair, which its client goes on using.
ReuseInit ==
    /\ input = << >>
    /\ pieces = 0
    /\ junk = 0
    /\ phase = "reuse"
    /\ currentPosition = 0
    /\ lookahead = NoToken
    /\ parsed = NotRun
    /\ converted = NotRun
    /\ produced = << >>
    /\ calls = 0
    /\ resets = 0
    /\ ast = Program(NoExpression)
    /\ generator = FilterGenerator(TheColumnMap, DrizzleOrm)
    /\ filter = NotRun
    /\ instances \in { [ i \in { 1 } |-> NewPair(in) ] : in \in PairInputs }
    /\ lexerCalls = << >>
    /\ consumed = 0

\* lexer.reset() on the Lexer of pair i
PairReset(i) ==
    /\ Len(instances[i].history) < MaxSteps
    /\ instances' = [ instances EXCEPT ![i] = AfterReset(@) ]
    /\ UNCHANGED << input, pieces, junk, phase, currentPosition, lookahead,
                    parsed, converted, produced, calls, resets, ast,
                    generator, filter, lexerCalls, consumed >>

ReuseNext ==
    \/ PairNextToken(1)
    \/ PairParse(1)
    \/ PairReset(1)

ReuseSpec == ReuseInit /\ [][ReuseNext]_vars

\* ----------------------------------------------- the grammar of the spec

\* The tokens a fresh Lexer yields over a string, up to and with EOF, or up
\* to the token the lexer fails at; failAt is where that token starts.
RECURSIVE TokensFrom(_, _, _)
TokensFrom(in, cur, acc) ==
    LET r == nextToken(in, cur)
    IN  IF ~r.ok
        THEN [ clean |-> FALSE, tokens |-> acc, failAt |-> skipWhitespace(in, cur) ]
        ELSE IF r.token.type = "EOF"
        THEN [ clean |-> TRUE, tokens |-> Append(acc, r.token), failAt |-> -1 ]
        ELSE TokensFrom(in, r.pos, Append(acc, r.token))

Tokens(in) == TokensFrom(in, 0, << >>)

Types(toks) == [ i \in 1..Len(toks) |-> toks[i].type ]

\* n closing parentheses
RParens(n) == [ i \in 1..n |-> "RPAREN" ]

\* Recognizer of the grammar, on a sequence t of token types.  XEnds(t, i) is
\* the set of the j such that t[i..j-1] derives X.
\*   Program        := Expression EOF
\*   Expression     := CallExpression | '(' Expression ')'
\*   CallExpression := Identifier '(' ArgumentList? ')'
\*   ArgumentList   := Argument (',' Argument)*
\*   Argument       := StringLiteral | CallExpression
RECURSIVE CallEnds(_, _)
RECURSIVE ArgumentEnds(_, _)
RECURSIVE ArgumentListEnds(_, _)
RECURSIVE ExpressionEnds(_, _)

\* The members k of a set of positions at which t holds a token of that type.
At(t, ks, type) == { k \in ks : k <= Len(t) /\ t[k] = type }

CallEnds(t, i) ==
    IF i + 1 <= Len(t) /\ t[i] = "IDENTIFIER" /\ t[i + 1] = "LPAREN"
    THEN { k + 1 : k \in At(t, {i + 2} \cup ArgumentListEnds(t, i + 2), "RPAREN") }
    ELSE {}

ArgumentEnds(t, i) ==
    (IF i <= Len(t) /\ t[i] = "STRING_LITERAL" THEN {i + 1} ELSE {})
        \cup CallEnds(t, i)

ArgumentListEnds(t, i) ==
    LET first == ArgumentEnds(t, i)
    IN  first \cup UNION { ArgumentListEnds(t, k + 1) : k \in At(t, first, "COMMA") }

ExpressionEnds(t, i) ==
    CallEnds(t, i)
        \cup (IF i <= Len(t) /\ t[i] = "LPAREN"
              THEN { k + 1 : k \in At(t, ExpressionEnds(t, i + 1), "RPAREN") }
              ELSE {})

\* t, which ends with EOF, derives Program.
Derivable(t) ==
    t # << >> /\ t[Len(t)] = "EOF" /\ Len(t) \in ExpressionEnds(t, 1)

\* The tokens of the input, and those before its EOF.
InputTokens == Tokens(input)

\* ------------------------------------------------------------------ claims

\* C1: parse() succeeds exactly on the inputs whose token sequence the
\* grammar derives; every other input in which no string literal is left
\* unclosed makes parse() throw a ParserError.
C1_ParseAcceptsExactlyTheGrammar ==
    (phase = "parsed" /\ InputTokens.clean)
        => /\ parsed.ok <=> Derivable(Types(InputTokens.tokens))
           /\ ~parsed.ok => parsed.class = "ParserError"

\* C1 witness: a parenthesized call was parsed and accepted.
C1_Witness ==
    /\ phase = "parsed" /\ parsed.ok
    /\ InputTokens.tokens[1].type = "LPAREN"
    /\ Derivable(Types(InputTokens.tokens))

\* The tokens a call expression of the AST is written with, as
\* <<type, value>> pairs: its name, '(', its arguments with ',' between, ')'.
RECURSIVE Written(_)
RECURSIVE WrittenArgs(_, _)
Written(node) ==
    IF node.kind = "StringLiteral"
    THEN << << "STRING_LITERAL", node.value >> >>
    ELSE << << "IDENTIFIER", node.functionName >>, << "LPAREN", "(" >> >>
            \o WrittenArgs(node.args, 1) \o << << "RPAREN", ")" >> >>

WrittenArgs(args, i) ==
    IF i > Len(args) THEN << >>
    ELSE (IF i > 1 THEN << << "COMMA", "," >> >> ELSE << >>)
            \o Written(args[i]) \o WrittenArgs(args, i + 1)

\* The number of '(' tokens a token sequence starts with.
RECURSIVE Leading(_, _)
Leading(toks, i) ==
    IF i <= Len(toks) /\ toks[i].type = "LPAREN" THEN Leading(toks, i + 1) ELSE i - 1

\* The tokens of the source without EOF and without the grouping parentheses
\* around the top-level call, as <<type, value>> pairs.
SourceCall(toks) ==
    LET g == Leading(toks, 1)
    IN  [ i \in 1..(Len(toks) - 1 - 2 * g) |->
            << toks[g + i].type, toks[g + i].value >> ]

\* C2: the Program of a successful parse mirrors the source: written out
\* call by call and argument by argument, in order, it is the token sequence
\* of the source (grouping parentheses aside).
C2_AstMirrorsSource ==
    (phase = "parsed" /\ parsed.ok)
        => /\ parsed.value.kind = "Program"
           /\ parsed.value.expression.kind = "CallExpression"
           /\ Written(parsed.value.expression) = SourceCall(InputTokens.tokens)

\* C2 witness: a parsed call with two arguments in which one is a nested call.
C2_Witness ==
    /\ phase = "parsed" /\ parsed.ok
    /\ Len(parsed.value.expression.args) = 2
    /\ \E i \in 1..2 : parsed.value.expression.args[i].kind = "CallExpression"

\* The token types of the input before its EOF (or before the lexer fails).
Body ==
    LET t == Types(InputTokens.tokens)
    IN  IF InputTokens.clean THEN SubSeq(t, 1, Len(t) - 1) ELSE t

\* t followed by n closing parentheses derives Program for some n >= 1.
Closable(t) ==
    \E n \in 1..(Len(t) + 1) : Derivable(t \o RParens(n) \o << "EOF" >>)

\* The index of the last '(' of t[1..i] that no ')' closes, or 0.
RECURSIVE UnmatchedOpen(_, _, _)
UnmatchedOpen(t, i, depth) ==
    IF i = 0 THEN 0
    ELSE IF t[i] = "RPAREN" THEN UnmatchedOpen(t, i - 1, depth + 1)
    ELSE IF t[i] = "LPAREN"
    THEN (IF depth = 0 THEN i ELSE UnmatchedOpen(t, i - 1, depth - 1))
    ELSE UnmatchedOpen(t, i - 1, depth)

\* t ends inside a function call that only lacks its ')'.
EndsInCall(t) ==
    LET o == UnmatchedOpen(t, Len(t), 0)
    IN  o > 1 /\ t[o - 1] = "IDENTIFIER" /\ Closable(t)

\* The name of the call t ends in.
UnclosedName(t) ==
    InputTokens.tokens[UnmatchedOpen(t, Len(t), 0) - 1].value

\* The input ends after a complete, non-empty argument list of an unclosed call.
EndsAfterArguments ==
    /\ InputTokens.clean /\ Body # << >>
    /\ Body[Len(Body)] \notin { "LPAREN", "COMMA" }
    /\ EndsInCall(Body)

\* The input ends right after the '(' of a call.
EndsAfterOpen ==
    /\ InputTokens.clean /\ Body # << >>
    /\ Body[Len(Body)] = "LPAREN"
    /\ EndsInCall(Body)

\* The input ends right after a ',' that follows an argument of an unclosed call.
EndsAfterComma ==
    /\ InputTokens.clean /\ Len(Body) > 1
    /\ Body[Len(Body)] = "COMMA"
    /\ Body[Len(Body) - 1] \notin { "LPAREN", "COMMA" }
    /\ EndsInCall(SubSeq(Body, 1, Len(Body) - 1))

\* The name of the unclosed call the input ends in.
EndName ==
    IF Body[Len(Body)] = "COMMA"
    THEN UnclosedName(SubSeq(Body, 1, Len(Body) - 1))
    ELSE UnclosedName(Body)

Failed(message) ==
    ~parsed.ok /\ parsed.class = "ParserError" /\ parsed.message = message

SayCloseCall(name) ==
    "Expected ')' to close function call '" \o name \o "'."

SayArgument(value, type) ==
    "Unexpected token '" \o value \o "' (type " \o type
        \o "). Expected a string literal or a nested function call as an argument."

\* C3 as stated: whatever precedes the missing ')' of a call (a complete
\* argument list, a bare '(' or a trailing ','), parse() fails with
\* "Expected ')' to close function call '<name>'.".
C3_Original ==
    (phase = "parsed" /\ (EndsAfterArguments \/ EndsAfterOpen \/ EndsAfterComma))
        => Failed(SayCloseCall(EndName))

\* C3 as amended: when the input ends after a complete, non-empty argument
\* list of an unclosed call, parse() fails with "Expected ')' to close
\* function call '<name>'." for the innermost unclosed call; when it ends
\* right after the call's '(' or after a ',', parse() fails with
\* "Unexpected token '' (type EOF). Expected a string literal or a nested
\* function call as an argument.".
C3_MissingCloseParen ==
    phase = "parsed"
        => /\ EndsAfterArguments => Failed(SayCloseCall(EndName))
           /\ (EndsAfterOpen \/ EndsAfterComma) => Failed(SayArgument("", "EOF"))

\* C3 witness: a nested call with an argument ends unclosed.
C3_Witness ==
    /\ phase = "parsed" /\ EndsAfterArguments
    /\ LET o == UnmatchedOpen(Body, Len(Body), 0)
       IN  o > 3 /\ Body[o - 2] = "LPAREN" /\ Body[o - 3] = "IDENTIFIER"
    /\ Failed(SayCloseCall("eq"))

\* The positions j at which a complete top-level expression of the input
\* ends and another token, not EOF, follows.
TrailingAt ==
    { j \in ExpressionEnds(Types(InputTokens.tokens), 1) :
        j <= Len(InputTokens.tokens) /\ InputTokens.tokens[j].type # "EOF" }

SayEndOfInput(token) ==
    "Unexpected token '" \o token.value \o "' at position "
        \o ToString(token.position) \o ". Expected end of input."

IsAndOr(token) ==
    token.type = "IDENTIFIER" /\ token.value \in { "and", "or" }

\* C4 as stated: a complete valid expression followed by a further token of
\* any kind fails with "Unexpected token '<value>' at position <pos>.
\* Expected end of input." for the first trailing token.
C4_Original ==
    phase = "parsed"
        => \A j \in TrailingAt : Failed(SayEndOfInput(InputTokens.tokens[j]))

\* C4 as amended: a complete valid expression followed by a further token
\* other than the identifier and or or fails with "Unexpected token
\* '<value>' at position <pos>. Expected end of input." for the first
\* trailing token.
C4_TrailingToken ==
    phase = "parsed"
        => \A j \in TrailingAt :
              ~IsAndOr(InputTokens.tokens[j])
                  => Failed(SayEndOfInput(InputTokens.tokens[j]))

\* C4 witness: a complete call is followed by an identifier that is not a
\* logical operator.
C4_Witness ==
    /\ phase = "parsed"
    /\ \E j \in TrailingAt :
          /\ InputTokens.tokens[j].type = "IDENTIFIER"
          /\ ~IsAndOr(InputTokens.tokens[j])
          /\ Failed(SayEndOfInput(InputTokens.tokens[j]))

\* The positions j of an identifier and or or that directly follows a
\* complete expression standing at top level or inside grouping parentheses.
LogicalAt ==
    LET toks == InputTokens.tokens
    IN  { j \in 1..Len(toks) :
            /\ IsAndOr(toks[j])
            /\ \E g \in 0..Leading(toks, 1) : j \in ExpressionEnds(Types(toks), g + 1) }

SayLogical(op) ==
    "Unexpected logical operator '" \o op \o "' not in a function call."

\* C5: a complete expression, at top level or inside grouping parentheses,
\* directly followed by the identifier and or or fails with the ParserError
\* "Unexpected logical operator '<op>' not in a function call.", whatever
\* text follows that identifier.
C5_LogicalOperator ==
    phase = "parsed"
        => \A j \in LogicalAt : Failed(SayLogical(InputTokens.tokens[j].value))

\* C5, where the text after the identifier lexes to a token: the error is
\* reported.
C5_Reported ==
    /\ phase = "parsed"
    /\ \E j \in LogicalAt :
          /\ j < Len(InputTokens.tokens)
          /\ Failed(SayLogical(InputTokens.tokens[j].value))

\* The identifier at i stands in call position: with '(' and closing
\* parentheses after it, the tokens up to it derive Program.
CallPosition(t, i) ==
    /\ t[i] = "IDENTIFIER"
    /\ \E n \in 1..i :
          Derivable(SubSeq(t, 1, i) \o << "LPAREN" >> \o RParens(n) \o << "EOF" >>)

SayOpenCall(name) ==
    "Expected '(' after function name '" \o name \o "'."

\* The positions of an identifier in call position that a token other than
\* '(' follows.
BareNameAt ==
    LET toks == InputTokens.tokens
    IN  { i \in 1..(Len(toks) - 1) :
            CallPosition(Types(toks), i) /\ toks[i + 1].type # "LPAREN" }

ArgumentPosition(t, j) ==
    \E n \in 1..j :
        Derivable(SubSeq(t, 1, j - 1) \o << "STRING_LITERAL" >> \o RParens(n)
                      \o << "EOF" >>)

\* The argument positions holding a token that is neither a string literal
\* nor an identifier, nor the ')' of an empty argument list.
BadArgumentAt ==
    LET toks == InputTokens.tokens
    IN  { j \in 2..Len(toks) :
            /\ toks[j].type \notin { "STRING_LITERAL", "IDENTIFIER" }
            /\ ~(toks[j].type = "RPAREN" /\ toks[j - 1].type = "LPAREN")
            /\ ArgumentPosition(Types(toks), j) }

SayPrimary(value, type) ==
    "Unexpected token '" \o value \o "' (type " \o type
        \o "). Expected a function call or a '('."

\* C8: an input whose first token is neither an Identifier nor '(' fails
\* with "Unexpected token '<value>' (type <TYPE>). Expected a function call
\* or a '('."; for the empty input the message is "Unexpected token ''
\* (type EOF). Expected a function call or a '('.".
C8_BadFirstToken ==
    phase = "parsed"
        => /\ (InputTokens.tokens # << >>
                 /\ InputTokens.tokens[1].type \notin { "IDENTIFIER", "LPAREN" })
              => Failed(SayPrimary(InputTokens.tokens[1].value,
                                   InputTokens.tokens[1].type))
           /\ input = << >>
              => Failed("Unexpected token '' (type EOF). Expected a function call or a '('.")

\* C8 witness: an input of whitespace only was parsed.
C8_Witness ==
    /\ phase = "parsed" /\ input = << " " >>
    /\ Failed("Unexpected token '' (type EOF). Expected a function call or a '('.")

\* C9: convertStringToDrizzleFilter throws a ParserError, and no other kind
\* of error, for every invalid input, a never closed string literal included.
C9_AlwaysParserError ==
    (phase = "converted" /\ ~converted.ok) => converted.class = "ParserError"

SayUnclosed(start) ==
    "Unclosed string literal starting at position " \o ToString(start)

\* C10: when nextToken() meets a '"' with no unescaped closing '"' before
\* the end of input, it fails with "Unclosed string literal starting at
\* position <start>", <start> being the offset of that opening quote, from
\* every cursor and also inside parse().
C10_UnclosedReportsStart ==
    /\ \A cur \in 0..Len(input) :
          LET r == nextToken(input, cur)
              start == skipWhitespace(input, cur)
          IN  ~r.ok => /\ input[start + 1] = QUOTE
                       /\ r.message = SayUnclosed(start)
    /\ (phase = "parsed" /\ ~parsed.ok /\ parsed.class = "Error")
          => /\ input[InputTokens.failAt + 1] = QUOTE
             /\ parsed.message = SayUnclosed(InputTokens.failAt)

\* C10 witness: parse() met a literal that ends in an escaped quote, opened
\* after other tokens.
C10_Witness ==
    /\ phase = "parsed" /\ ~parsed.ok /\ parsed.class = "Error"
    /\ Len(input) > 3
    /\ input[Len(input)] = QUOTE /\ input[Len(input) - 1] = BACKSLASH
    /\ 0 < InputTokens.failAt /\ InputTokens.failAt < currentPosition - 1
    /\ parsed.message = SayUnclosed(InputTokens.failAt)

\* ------------------------------------------------ the Lexer used by itself

\* A step of the Lexer's client that is a nextToken() call.
Called ==
    calls' = calls + 1

\* What that call returned or threw.
Result ==
    produced'[Len(produced')]

\* The characters of a string written out as one text.
RECURSIVE Text(_)
Text(chars) ==
    IF chars = << >> THEN "" ELSE Head(chars) \o Text(Tail(chars))

\* The offset of the first character at or after cur that is not whitespace;
\* the length of the string when there is none.
LexemeStart(in, cur) ==
    CHOOSE k \in cur..Len(in) :
        /\ \A j \in (cur + 1)..k : in[j] \in { " ", "\t", "\n" }
        /\ k = Len(in) \/ in[k + 1] \notin { " ", "\t", "\n" }

\* The number of backslashes that stand directly before index k, counted no
\* further back than index lo.
BackslashesBefore(in, lo, k) ==
    CHOOSE n \in 0..(k - lo) :
        /\ \A j \in (k - n)..(k - 1) : in[j] = BACKSLASH
        /\ k - n = lo \/ in[k - n - 1] # BACKSLASH

\* The indices of the unescaped quotes after the quote at index q: those with
\* an even number of backslashes before them.
UnescapedQuotes(in, q) ==
    { k \in (q + 1)..Len(in) :
          in[k] = QUOTE /\ BackslashesBefore(in, q + 1, k) % 2 = 0 }

\* The index of the quote that closes the literal opened at index q.
ClosingQuote(in, q) ==
    CHOOSE k \in UnescapedQuotes(in, q) : \A j \in UnescapedQuotes(in, q) : k <= j

\* The token at the cursor is a string literal that is never closed.
Unterminated(in, cur) ==
    /\ LexemeStart(in, cur) < Len(in)
    /\ in[LexemeStart(in, cur) + 1] = QUOTE
    /\ UnescapedQuotes(in, LexemeStart(in, cur) + 1) = { }

TokenKinds ==
    { "IDENTIFIER", "STRING_LITERAL", "LPAREN", "RPAREN", "COMMA", "EOF",
      "UNKNOWN" }

\* C11: nextToken() returns a token of kind Identifier, StringLiteral, LParen,
\* RParen, Comma, EOF or Unknown from every cursor of every input, unless the
\* token at the cursor is a string literal that is never closed; that is the
\* only case in which it fails, and it fails then.
C11_FailsOnlyUnterminated ==
    [][ Called =>
          /\ Result.ok <=> ~Unterminated(input, currentPosition)
          /\ Result.ok => Result.token.type \in TokenKinds
          /\ ~Result.ok => Result.class = "Error" ]_vars

\* C11 witness: on one Lexer, a call has returned a token, a later call has
\* failed on a literal that is never closed, and the call after it returned.
C11_Witness ==
    /\ phase = "lexing"
    /\ \E i \in 2..(Len(produced) - 1) :
          /\ produced[i - 1].ok
          /\ ~produced[i].ok
          /\ produced[i + 1].ok

\* The EOF token of a string.
EofToken(in) ==
    [ ok |-> TRUE,
      token |-> [ type |-> "EOF", value |-> "", position |-> Len(in) ] ]

\* C12: when only whitespace or nothing remains at or after the cursor,
\* nextToken() returns EOF with value "" and position = the input length; and
\* a nextToken() call that follows one that returned EOF, with no reset()
\* between them, returns an equal token and leaves the cursor unchanged.
C12_EofAtEndAndAgain ==
    [][ Called =>
          /\ LexemeStart(input, currentPosition) = Len(input)
                => Result = EofToken(input) /\ currentPosition' = Len(input)
          /\ (produced # << >> /\ produced[Len(produced)].ok
                  /\ produced[Len(produced)].token.type = "EOF")
                => /\ Result = produced[Len(produced)]
                   /\ currentPosition' = currentPosition ]_vars

\* C12 witness: over an input of whitespace only, the first call and two
\* more calls have returned EOF.
C12_Witness ==
    /\ phase = "lexing"
    /\ input = << " ", "\t", "\n", " " >>
    /\ resets = 0
    /\ Len(produced) >= 3
    /\ \A i \in 1..3 : produced[i] = EofToken(input)
    /\ currentPosition = 4

\* What the first n nextToken() calls on a freshly constructed Lexer over a
\* string return or throw.
RECURSIVE FreshLexer(_, _, _)
FreshLexer(in, cur, n) ==
    IF n = 0 THEN << >>
    ELSE << Lexed(nextToken(in, cur)) >>
             \o FreshLexer(in, nextToken(in, cur).pos, n - 1)

\* C13: after any nextToken() calls, reset() followed by nextToken() calls
\* gives the tokens, or the error, that the same calls give on a freshly
\* constructed Lexer over the same input.
C13_ResetIsFresh ==
    (phase = "lexing" /\ resets > 0)
        => produced = FreshLexer(input, 0, Len(produced))

\* C13 witness: three calls, the last one failing, then reset(), then the
\* same three calls again.
C13_Witness ==
    /\ phase = "lexing"
    /\ input = << "a", "(", QUOTE, "a", BACKSLASH, QUOTE >>
    /\ resets = 1
    /\ calls - Len(produced) = 3
    /\ Len(produced) = 3
    /\ produced[1].ok /\ produced[1].token.value = "a"
    /\ ~produced[3].ok

\* A token as a nextToken() call returns it.
Tok(type, value, position) ==
    [ ok |-> TRUE,
      token |-> [ type |-> type, value |-> value, position |-> position ] ]

\* The character a lexeme of each kind starts with.
StartsWith(token, char) ==
    CASE token.type = "STRING_LITERAL" -> char = QUOTE
      [] token.type = "LPAREN" -> char = "(" /\ token.value = "("
      [] token.type = "RPAREN" -> char = ")" /\ token.value = ")"
      [] token.type = "COMMA" -> char = "," /\ token.value = ","
      [] token.type = "UNKNOWN" -> token.value = char
      [] token.type = "IDENTIFIER" ->
            \E n \in 1..(Len(input) - token.position) :
                /\ input[token.position + 1] = char
                /\ token.value
                     = Text(SubSeq(input, token.position + 1, token.position + n))
      [] OTHER -> FALSE

\* eq("a", "b") as the lexer's test expects it tokenized.
SimpleExpression ==
    << "e","q","(",QUOTE,"a",QUOTE,","," ",QUOTE,"b",QUOTE,")" >>

SimpleExpressionTokens ==
    << Tok("IDENTIFIER", "eq", 0), Tok("LPAREN", "(", 2),
       Tok("STRING_LITERAL", "a", 3), Tok("COMMA", ",", 6),
       Tok("STRING_LITERAL", "b", 8), Tok("RPAREN", ")", 11),
       Tok("EOF", "", 12), Tok("EOF", "", 12) >>

\* C14: the position of every token other than EOF that nextToken() returns
\* is the offset of the first character at or after the cursor that is not
\* whitespace, and the input holds the first character of the token's lexeme
\* there (the opening quote for a string literal); eq("a", "b") gives eq@0,
\* (@2, a@3, ,@6, b@8, )@11, EOF@12.
C14_PositionIsLexemeStart ==
    [][ Called =>
          /\ (Result.ok /\ Result.token.type # "EOF")
                => /\ Result.token.position = LexemeStart(input, currentPosition)
                   /\ Result.token.position < Len(input)
                   /\ StartsWith(Result.token, input[Result.token.position + 1])
          /\ (input = SimpleExpression /\ Len(produced') <= 8)
                => Result = SimpleExpressionTokens[Len(produced')] ]_vars

\* C14 witness: over an input with whitespace before and between its
\* lexemes, the tokens up to EOF were returned, the first one at offset 2.
C14_Witness ==
    /\ phase = "lexing"
    /\ input = << " "," ","e","q"," ","(",QUOTE,"a",QUOTE,")"," " >>
    /\ Len(produced) >= 5
    /\ produced[1] = Tok("IDENTIFIER", "eq", 2)
    /\ produced[2] = Tok("LPAREN", "(", 5)
    /\ produced[3] = Tok("STRING_LITERAL", "a", 6)
    /\ produced[5] = Tok("EOF", "", 11)

\* C15: the value of a StringLiteral token is the characters between the
\* opening quote and the first unescaped quote after it, as they are written:
\* a backslash and the character after it are both kept, whitespace, commas,
\* parentheses and digits are kept; the cursor ends just past that quote.
C15_LiteralValueIsRaw ==
    [][ (Called /\ Result.ok /\ Result.token.type = "STRING_LITERAL") =>
          /\ Result.token.value
               = Text(SubSeq(input, Result.token.position + 2,
                             ClosingQuote(input, Result.token.position + 1) - 1))
          /\ currentPosition' = ClosingQuote(input, Result.token.position + 1) ]_vars

\* C15 witness: a literal with an escaped quote, or one with a comma,
\* whitespace, parentheses and a digit, was read, and the token after it.
C15_Witness ==
    /\ phase = "lexing"
    /\ \/ /\ input = << QUOTE,"a",BACKSLASH,QUOTE,"b",QUOTE,"1" >>
          /\ Len(produced) = 2
          /\ produced[1] = Tok("STRING_LITERAL", "a\\\"b", 0)
          /\ produced[2] = Tok("UNKNOWN", "1", 6)
       \/ /\ input = << QUOTE,"a",","," ","(","1",")",QUOTE,")" >>
          /\ Len(produced) = 2
          /\ produced[1] = Tok("STRING_LITERAL", "a, (1)", 0)
          /\ produced[2] = Tok("RPAREN", ")", 8)

\* The offset at which the run of letters that starts at offset s ends.
LetterRunEnd(in, s) ==
    CHOOSE e \in (s + 1)..Len(in) :
        /\ \A j \in (s + 1)..e : isLetter(in[j])
        /\ e = Len(in) \/ ~isLetter(in[e + 1])

User123Tokens ==
    << Tok("IDENTIFIER", "user", 0), Tok("UNKNOWN", "1", 4),
       Tok("UNKNOWN", "2", 5), Tok("UNKNOWN", "3", 6), Tok("EOF", "", 7) >>

\* C17: when the first character at or after the cursor that is not
\* whitespace is a letter, nextToken() returns an Identifier whose value is
\* the longest run of letters starting there, and the cursor is left on the
\* character that ends the run; user123 gives user, then Unknown 1, 2, 3.
C17_IdentifierIsLetterRun ==
    [][ Called =>
          /\ ( /\ LexemeStart(input, currentPosition) < Len(input)
               /\ isLetter(input[LexemeStart(input, currentPosition) + 1]) )
                => /\ Result
                        = Tok("IDENTIFIER",
                              Text(SubSeq(input,
                                          LexemeStart(input, currentPosition) + 1,
                                          LetterRunEnd(input,
                                              LexemeStart(input, currentPosition)))),
                              LexemeStart(input, currentPosition))
                   /\ currentPosition'
                        = LetterRunEnd(input, LexemeStart(input, currentPosition))
          /\ (input = << "u","s","e","r","1","2","3" >> /\ Len(produced') <= 5)
                => Result = User123Tokens[Len(produced')] ]_vars

\* C17 witness: identifiers ended by an underscore and by a hyphen were read.
C17_Witness ==
    /\ phase = "lexing"
    /\ input = << "a","_","b","-","c" >>
    /\ Len(produced) = 5
    /\ produced[1] = Tok("IDENTIFIER", "a", 0)
    /\ produced[2] = Tok("UNKNOWN", "_", 1)
    /\ produced[3] = Tok("IDENTIFIER", "b", 2)
    /\ produced[5] = Tok("IDENTIFIER", "c", 4)

\* C18: a character at the cursor that is not whitespace, '(', ')', ',',
\* '"' or a letter gives an Unknown token whose value is that character, and
\* the cursor advances by one; a run of digits gives one Unknown token per
\* digit, at consecutive positions.
C18_UnknownIsOneCharacter ==
    [][ ( /\ Called
          /\ LexemeStart(input, currentPosition) < Len(input)
          /\ input[LexemeStart(input, currentPosition) + 1]
                \notin { " ", "\t", "\n", "(", ")", ",", QUOTE }
          /\ ~isLetter(input[LexemeStart(input, currentPosition) + 1]) )
        => /\ Result = Tok("UNKNOWN",
                           input[LexemeStart(input, currentPosition) + 1],
                           LexemeStart(input, currentPosition))
           /\ currentPosition' = LexemeStart(input, currentPosition) + 1 ]_vars

\* C18 witness: a run of three digits, then a '$' after whitespace, were
\* read as four Unknown tokens.
C18_Witness ==
    /\ phase = "lexing"
    /\ input = << "1","2","3"," ","$" >>
    /\ Len(produced) = 5
    /\ produced[1] = Tok("UNKNOWN", "1", 0)
    /\ produced[2] = Tok("UNKNOWN", "2", 1)
    /\ produced[3] = Tok("UNKNOWN", "3", 2)
    /\ produced[4] = Tok("UNKNOWN", "$", 4)
    /\ produced[5] = Tok("EOF", "", 5)

\* ------------------------------------------------- literals and numbers

\* The text a written literal stands for: of a backslash and the character
\* after it, the character.
RECURSIVE Decoded(_)
Decoded(chars) ==
    IF chars = << >> THEN ""
    ELSE IF Head(chars) = BACKSLASH /\ Len(chars) >= 2
    THEN chars[2] \o Decoded(SubSeq(chars, 3, Len(chars)))
    ELSE Head(chars) \o Decoded(Tail(chars))

IsLiteralToken(token) ==
    token.type = "STRING_LITERAL"

IsLiteralPair(pair) ==
    pair[1] = "STRING_LITERAL"

\* The decoded texts of the string literals of the input, in source order.
SourceLiterals ==
    [ i \in 1..Len(SelectSeq(InputTokens.tokens, IsLiteralToken)) |->
        Decoded(SubSeq(input,
                       SelectSeq(InputTokens.tokens, IsLiteralToken)[i].position + 2,
                       ClosingQuote(input,
                           SelectSeq(InputTokens.tokens, IsLiteralToken)[i].position + 1)
                         - 1)) ]

\* The values of the StringLiteral nodes of an AST, in source order.
LiteralValues(node) ==
    [ i \in 1..Len(SelectSeq(Written(node), IsLiteralPair)) |->
        SelectSeq(Written(node), IsLiteralPair)[i][2] ]

\* C16: the value of every StringLiteral node of the AST that parse() returns
\* is the decoded text of its source literal: the quotes stripped and each
\* backslash escape resolved ("a\"b" gives a"b).
C16_LiteralValueIsDecoded ==
    (phase = "parsed" /\ parsed.ok)
        => LiteralValues(parsed.value.expression) = SourceLiterals

\* A token that is one digit.
IsDigit(token) ==
    token.type = "UNKNOWN" /\ token.value \in { "0", "1", "2", "3", "4", "5", "6", "7", "8", "9" }

\* The token types of the input with each digit read as a literal.
NumbersAsLiterals ==
    [ i \in 1..Len(InputTokens.tokens) |->
        IF IsDigit(InputTokens.tokens[i]) THEN "STRING_LITERAL"
        ELSE InputTokens.tokens[i].type ]

\* The operators the README lists as supported.
ReadmeOperators ==
    { "and", "or", "not", "eq", "ne", "gt", "gte", "lt", "lte", "like",
      "ilike", "isNull", "isNotNull" }

\* The input is an expression of the grammar, over the README's operators,
\* in which at least one argument is an unquoted digit.
HasNumberArgument ==
    /\ InputTokens.clean
    /\ \E i \in 1..Len(InputTokens.tokens) : IsDigit(InputTokens.tokens[i])
    /\ Derivable(NumbersAsLiterals)
    /\ \A i \in 1..Len(InputTokens.tokens) :
          InputTokens.tokens[i].type = "IDENTIFIER"
              => InputTokens.tokens[i].value \in ReadmeOperators

\* C19: an unquoted number is allowed as an argument: an expression such as
\* eq("id", 1) is accepted by convertStringToDrizzleFilter and yields a filter.
C19_NumberArgumentAccepted ==
    (phase = "converted" /\ HasNumberArgument) => converted.ok

\* ------------------------------------------------------- the generator

\* The function names of the calls of an AST node.
RECURSIVE NamesIn(_)
NamesIn(node) ==
    IF node.kind # "CallExpression" THEN { }
    ELSE { node.functionName }
             \cup UNION { NamesIn(node.args[i]) : i \in 1..Len(node.args) }

\* The generator whose operators all return an SQL expression of their call.
MockedGenerator ==
    FilterGenerator(TheColumnMap, [ name \in DrizzleOperatorNames |-> "sql" ])

\* C20: every operator the README lists as supported is recognized by the
\* generator: for a call to any of them whose nested calls are calls to them
\* too, ne("column", "value") among them, generate() invokes the operator of
\* that name and does not fail with Unsupported Drizzle ORM function.
C20_ReadmeOperatorsRecognized ==
    ( /\ phase = "generated"
      /\ generator = MockedGenerator
      /\ ast.expression.kind = "CallExpression"
      /\ NamesIn(ast.expression) \subseteq ReadmeOperators )
        => /\ filter.ok
           /\ filter.value.sql = ast.expression.functionName

\* The calls made by generate(), and their number.
Invoked ==
    filter.invoked

\* C21: a call whose function name is none of the generator's operator names
\* makes generate() fail with Unsupported Drizzle ORM function: '<name>'.,
\* and nothing is invoked for it.  (Every such name made of letters is an
\* identifier the parser accepts.)
C21_UnrecognizedIsUnsupported ==
    ( /\ phase = "generated"
      /\ ast.expression.kind = "CallExpression"
      /\ ast.expression.functionName \notin DrizzleOperatorNames )
        => /\ ~filter.ok
           /\ filter.message = UnsupportedMessage(ast.expression.functionName)
           /\ Invoked = << >>

\* Whether every argument of a call is a string literal.
OnlyLiterals(node) ==
    \A i \in 1..Len(node.args) : node.args[i].kind = "StringLiteral"

\* What the claim says a literal is passed as: the column of the map when
\* the call is a comparison and the value is a key of the map, the string
\* otherwise.
PassedAs(this, node, i) ==
    IF /\ node.functionName \in ComparisonOperatorNames
       /\ node.args[i].value \in DOMAIN this.columnMap
    THEN this.columnMap[node.args[i].value]
    ELSE StringValue(node.args[i].value)

\* C22: the operator of a call whose arguments are string literals receives,
\* in each position, the column handle when the call is a comparison and the
\* literal's value is a key of the column map, and the string value
\* otherwise.
C22_ColumnExactlyForKeys ==
    ( /\ phase = "generated"
      /\ ast.expression.kind = "CallExpression"
      /\ ast.expression.functionName \in DrizzleOperatorNames
      /\ OnlyLiterals(ast.expression) )
        => /\ Len(Invoked) = 1
           /\ Invoked[1].args
                  = [ i \in 1..Len(ast.expression.args) |->
                        PassedAs(generator, ast.expression, i) ]

\* Bottom-up evaluation as the claim describes it: the value of a call is
\* what its operator returns for one value per argument, in source order.
RECURSIVE ValueOf(_, _)
ArgumentValue(this, node, i) ==
    IF node.args[i].kind = "StringLiteral"
    THEN ProcessLiteral(this, node.functionName, node.args[i])
    ELSE ValueOf(this, node.args[i])

ArgumentValues(this, node) ==
    [ i \in 1..Len(node.args) |-> ArgumentValue(this, node, i) ]

ValueOf(this, node) ==
    CallResult(Get(this.drizzleOperators, node.functionName),
               ArgumentValues(this, node))

\* The invocations of that evaluation, in order: those of the nested calls
\* from left to right, then the call's own.
RECURSIVE InvocationsOf(_, _)
RECURSIVE NestedInvocations(_, _, _)
NestedInvocations(this, node, i) ==
    IF i > Len(node.args) THEN << >>
    ELSE ( IF node.args[i].kind = "CallExpression"
           THEN InvocationsOf(this, node.args[i])
           ELSE << >> )
             \o NestedInvocations(this, node, i + 1)

InvocationsOf(this, node) ==
    Append(NestedInvocations(this, node, 1),
           Invocation(Get(this.drizzleOperators, node.functionName),
                      ArgumentValues(this, node)))

\* C23: when generate() returns for an AST of recognized operators, the
\* invocations it made are those of the bottom-up evaluation: one per call,
\* nested calls first and from left to right, each operator receiving one
\* value per argument in source order; and what it returns is the result of
\* the root operator.
C23_BottomUpOneValuePerArgument ==
    ( /\ phase = "generated"
      /\ filter.ok
      /\ ast.expression.kind = "CallExpression"
      /\ NamesIn(ast.expression) \subseteq DrizzleOperatorNames )
        => /\ Invoked = InvocationsOf(generator, ast.expression)
           /\ filter.value = ValueOf(generator, ast.expression)

\* ------------------------------------------- several Lexer/Parser pairs

\* Whether the first call made on a pair was parse(): the pair was fresh.
ParsedFresh(pair) ==
    /\ Len(pair.history) >= 1
    /\ pair.history[1].op = "parse"

\* Whether two parse() calls ended alike: equal ASTs, or the same error
\* message and offending token.
SameOutcome(a, b) ==
    IF a.ok THEN b.ok /\ b.value = a.value
    ELSE /\ ~b.ok
         /\ b.message = a.message
         /\ b.token = a.token

Ops(pair) ==
    [ k \in 1..Len(pair.history) |-> pair.history[k].op ]

\* A pair on which the calls ops[k], ops[k + 1], ... are made and nothing
\* else happens.
RECURSIVE Replayed(_, _, _)
Replayed(pair, ops, k) ==
    IF k > Len(ops) THEN pair
    ELSE Replayed(
             IF ops[k] = "nextToken"
             THEN AfterNextToken(pair,
                                 nextToken(pair.input, pair.currentPosition))
             ELSE AfterParse(pair,
                             parse(pair.input, pair.currentPosition,
                                   pair.lookahead)),
             ops, k + 1)

\* Every pair is where the same calls bring it when it is run alone, with
\* the same tokens and parse results behind it.
AsWhenRunAlone ==
    \A i \in Pairs :
        instances[i]
            = Replayed(NewPair(instances[i].input), Ops(instances[i]), 1)

\* A step on one pair leaves the cursor and the lookahead of the others.
StepIsLocal ==
    \A i \in Pairs :
        instances'[i] # instances[i]
            => \A j \in Pairs \ { i } :
                   /\ instances'[j].currentPosition
                          = instances[j].currentPosition
                   /\ instances'[j].lookahead = instances[j].lookahead

\* C25: distinct Lexer/Parser pairs share no state: under every interleaving
\* of nextToken() and parse() calls on two pairs, each pair has produced the
\* tokens and parse results it produces when the same calls are made on it
\* alone, and a call on one pair never changes the cursor or the lookahead
\* of the other.
C25_PairsAreIndependent ==
    [] AsWhenRunAlone /\ [][StepIsLocal]_vars

\* Calls on two pairs over different inputs have been interleaved: each has
\* had a nextToken() and a parse().
C25_Witness ==
    /\ instances # << >>
    /\ instances[1].input # instances[2].input
    /\ \A i \in Pairs :
           { instances[i].history[k].op : k \in 1..Len(instances[i].history) }
               = { "nextToken", "parse" }

\* ------------------------------------------------------------- whitespace

\* The lexemes of in from cur on, written out again with other whitespace
\* between them: one blank before each lexeme and at the end when wide, and
\* otherwise none, except one blank between two identifiers, which would
\* become one identifier without it.  The text of a string literal that is
\* never closed is kept as it is.
RECURSIVE Relaid(_, _, _, _)
Relaid(in, cur, wide, afterIdentifier) ==
    LET r == nextToken(in, cur)
        blank == IF wide THEN << " " >> ELSE << >>
    IN  IF ~r.ok
        THEN blank \o SubSeq(in, skipWhitespace(in, cur) + 1, Len(in))
        ELSE IF r.token.type = TokenType.EOF THEN blank
        ELSE ( IF wide \/ ( afterIdentifier
                              /\ r.token.type = TokenType.Identifier )
               THEN << " " >> ELSE << >> )
                 \o SubSeq(in, r.token.position + 1, r.pos)
                 \o Relaid(in, r.pos, wide, r.token.type = TokenType.Identifier)

\* The messages that report a position.
SayCloseExpression(position) ==
    "Expected ')' to close expression started at position "
        \o ToString(position) \o "."

\* Whether two messages about a token of value v are the same apart from the
\* positions they report, none of which is beyond n.
SameMessageApartFromPositions(m1, m2, v, n) ==
    \/ m1 = m2
    \/ \E p \in 0..n : \E q \in 0..n :
           \/ m1 = SayUnclosed(p) /\ m2 = SayUnclosed(q)
           \/ m1 = SayCloseExpression(p) /\ m2 = SayCloseExpression(q)
           \/ /\ m1 = SayEndOfInput([ value |-> v, position |-> p ])
              /\ m2 = SayEndOfInput([ value |-> v, position |-> q ])

\* Whether two parse() calls ended alike apart from positions: the same AST,
\* or an error of the same kind at a token of the same type and value, with
\* the same message apart from positions.
SameApartFromPositions(a, b, n) ==
    IF a.ok THEN b.ok /\ b.value = a.value
    ELSE /\ ~b.ok
         /\ b.class = a.class
         /\ b.token.type = a.token.type
         /\ b.token.value = a.token.value
         /\ SameMessageApartFromPositions(a.message, b.message,
                                          a.token.value, n)

\* parse() of a fresh pair over in, as its caller sees it.
ParseOf(in) ==
    Outcome(parse(in, 0, NoToken))

\* C26: whitespace never produces a token, and the whitespace between the
\* tokens does not matter to parse(): the input written with a blank around
\* every lexeme, and written with no whitespace between lexemes (but one
\* blank between two identifiers), parse to the same AST, or fail with the
\* same kind of error and the same message apart from reported positions.
C26_WhitespaceIsInsignificant ==
    phase = "parsed"
        => /\ \A k \in 1..Len(InputTokens.tokens) :
                  InputTokens.tokens[k].type # TokenType.Whitespace
           /\ SameApartFromPositions(
                  parsed, ParseOf(Relaid(input, 0, TRUE, FALSE)),
                  2 * Len(input) + 1)
           /\ SameApartFromPositions(
                  parsed, ParseOf(Relaid(input, 0, FALSE, FALSE)),
                  2 * Len(input) + 1)

\* An input with a blank between two of its tokens was parsed to an AST.
C26_Witness ==
    /\ phase = "parsed"
    /\ parsed.ok
    /\ \E k \in 2..(Len(input) - 1) : isWhitespace(input[k])
    /\ Relaid(input, 0, FALSE, FALSE) # input

\* ------------------------------------------------------- shapes of calls

\* The names of the calls without arguments of an AST node, in source order.
RECURSIVE EmptyCalls(_)
RECURSIVE EmptyCallsOfArgs(_, _)
EmptyCallsOfArgs(args, i) ==
    IF i > Len(args) THEN << >>
    ELSE EmptyCalls(args[i]) \o EmptyCallsOfArgs(args, i + 1)

EmptyCalls(node) ==
    IF node.kind # "CallExpression" THEN << >>
    ELSE IF node.args = << >> THEN << node.functionName >>
    ELSE EmptyCallsOfArgs(node.args, 1)

\* The identifiers of a token sequence that are followed by ( and ).
RECURSIVE EmptyCallsWritten(_, _)
EmptyCallsWritten(toks, k) ==
    IF k + 2 > Len(toks) THEN << >>
    ELSE ( IF /\ toks[k].type = TokenType.Identifier
              /\ toks[k + 1].type = TokenType.LParen
              /\ toks[k + 2].type = TokenType.RParen
           THEN << toks[k].value >> ELSE << >> )
             \o EmptyCallsWritten(toks, k + 1)

\* C27: a call with an empty argument list is legal: an input f() parses to
\* the CallExpression f with no arguments, an input g(f()) to the call g of
\* that CallExpression, and in every input that parses each f() written is a
\* CallExpression f with an empty args sequence in the AST.
C27_EmptyArgumentList ==
    phase = "parsed"
        => /\ Types(InputTokens.tokens)
                  = << "IDENTIFIER", "LPAREN", "RPAREN", "EOF" >>
              => /\ parsed.ok
                 /\ parsed.value
                        = Program(CallExpression(InputTokens.tokens[1].value,
                                                 << >>))
           /\ Types(InputTokens.tokens)
                  = << "IDENTIFIER", "LPAREN", "IDENTIFIER", "LPAREN",
                       "RPAREN", "RPAREN", "EOF" >>
              => /\ parsed.ok
                 /\ parsed.value
                        = Program(CallExpression(
                              InputTokens.tokens[1].value,
                              << CallExpression(InputTokens.tokens[3].value,
                                                << >>) >>))
           /\ parsed.ok
              => EmptyCalls(parsed.value.expression)
                     = EmptyCallsWritten(InputTokens.tokens, 1)

\* An input and(or()) was parsed.
C27_Witness ==
    /\ phase = "parsed"
    /\ parsed.ok
    /\ input = << "a", "n", "d", "(", "o", "r", "(", ")", ")" >>

\* The input without its first and last character.
Inside(in) ==
    SubSeq(in, 2, Len(in) - 1)

\* Whether the input is an expression that parses, written in parentheses.
Grouped(in) ==
    /\ Len(in) >= 2
    /\ in[1] = "("
    /\ in[Len(in)] = ")"
    /\ ParseOf(Inside(in)).ok

\* C28: grouping parentheses around the top-level expression leave no trace:
\* when E parses, (E) parses to the same Program; and so, pair by pair, does
\* E in any number of balanced pairs.
C28_GroupingLeavesNoTrace ==
    (phase = "parsed" /\ Grouped(input))
        => /\ parsed.ok
           /\ parsed.value = ParseOf(Inside(input)).value

\* A call in two pairs of parentheses was parsed.
C28_Witness ==
    /\ phase = "parsed"
    /\ Grouped(input)
    /\ Grouped(Inside(input))
    /\ parsed.value.expression.kind = "CallExpression"

\* ---------------------------------------------------- well-formed Programs

\* The ASCII letters.
AsciiLetters ==
    { "a", "b", "c", "d", "e", "f", "g", "h", "i", "j", "k", "l", "m",
      "n", "o", "p", "q", "r", "s", "t", "u", "v", "w", "x", "y", "z",
      "A", "B", "C", "D", "E", "F", "G", "H", "I", "J", "K", "L", "M",
      "N", "O", "P", "Q", "R", "S", "T", "U", "V", "W", "X", "Y", "Z" }

\* The non-empty runs of ASCII letters written in a string, as texts.
LetterRuns(in) ==
    { Text(SubSeq(in, i, j)) :
        <<i, j>> \in { p \in (1..Len(in)) \X (1..Len(in)) :
                         /\ p[1] <= p[2]
                         /\ \A k \in p[1]..p[2] : in[k] \in AsciiLetters } }

\* Whether an AST node is a StringLiteral, or a CallExpression whose name is
\* one of names and whose arguments are such nodes.
RECURSIVE WellFormed(_, _)
WellFormed(node, names) ==
    \/ /\ DOMAIN node = { "kind", "value" }
       /\ node.kind = "StringLiteral"
    \/ /\ DOMAIN node = { "kind", "functionName", "args" }
       /\ node.kind = "CallExpression"
       /\ node.functionName \in names
       /\ \A i \in 1..Len(node.args) : WellFormed(node.args[i], names)

\* C29: every Program parse() returns is well-formed: its expression is a
\* CallExpression, never null; every function name in it is a non-empty run
\* of ASCII letters; every argument is a StringLiteral or a CallExpression.
C29_ProgramIsWellFormed ==
    (phase = "parsed" /\ parsed.ok)
        => /\ DOMAIN parsed.value = { "kind", "expression" }
           /\ parsed.value.kind = "Program"
           /\ parsed.value.expression.kind = "CallExpression"
           /\ WellFormed(parsed.value.expression, LetterRuns(input))

\* A Program with a literal and a call among its arguments was returned.
C29_Witness ==
    /\ phase = "parsed"
    /\ parsed.ok
    /\ \E i \in 1..Len(parsed.value.expression.args) :
           parsed.value.expression.args[i].kind = "StringLiteral"
    /\ \E i \in 1..Len(parsed.value.expression.args) :
           parsed.value.expression.args[i].kind = "CallExpression"

\* ------------------------------------------------- the Parser on its Lexer

\* C30: the Parser buffers exactly one unconsumed token: whenever parse()
\* calls nextToken() it has consumed every token it was given before, so the
\* k-th call is made with k - 1 tokens consumed, and when parse() ends the
\* calls it made are one more than the tokens it consumed; the Parser calls
\* no method of the Lexer but nextToken(), reset() in particular; and it
\* makes no call after the one that returned EOF.
C30_OneTokenBuffered ==
    phase = "parsed"
        => /\ Len(lexerCalls) = consumed + 1
           /\ \A k \in 1..Len(lexerCalls) :
                  /\ lexerCalls[k].consumed = k - 1
                  /\ lexerCalls[k].method = "nextToken"
                  /\ lexerCalls[k].returned = TokenType.EOF
                         => k = Len(lexerCalls)

\* A parse() that consumed all the tokens of a call with arguments and ended
\* with EOF buffered.
C30_Witness ==
    /\ phase = "parsed"
    /\ parsed.ok
    /\ consumed >= 6
    /\ lexerCalls[Len(lexerCalls)].returned = TokenType.EOF

\* ------------------------------------------------------------ termination

\* The number of nodes of an AST node.
RECURSIVE Nodes(_)
RECURSIVE NodesOfArgs(_, _)
NodesOfArgs(args, i) ==
    IF i > Len(args) THEN 0
    ELSE Nodes(args[i]) + NodesOfArgs(args, i + 1)

Nodes(node) ==
    IF node.kind = "CallExpression" THEN 1 + NodesOfArgs(node.args, 1)
    ELSE 1

\* C31: parse() ends, for every input, with a Program returned or an error
\* thrown, and what it does on the way is bounded by the input: every
\* nextToken() call that returned a token other than EOF moved the cursor
\* forward, so parse() made at most one call more than the input has
\* characters; and every call and argument parsed took at least one token,
\* the AST having at most as many nodes as tokens were consumed.
C31_ParseTerminates ==
    phase = "parsed"
        => /\ \/ parsed.ok /\ parsed.value.kind = "Program"
              \/ ~parsed.ok /\ parsed.class \in { "ParserError", "Error" }
           /\ \A k \in 1..Len(lexerCalls) :
                  lexerCalls[k].returned \notin { TokenType.EOF, "Error" }
                      => lexerCalls[k].to > lexerCalls[k].from
           /\ Len(lexerCalls) <= Len(input) + 1
           /\ parsed.ok => Nodes(parsed.value.expression) <= consumed

\* A Program of three nodes or more was returned, after seven calls or more.
C31_Witness ==
    /\ phase = "parsed"
    /\ parsed.ok
    /\ Len(lexerCalls) >= 7
    /\ Nodes(parsed.value.expression) >= 3

\* ------------------------------------------------------ the offending token

\* What can follow a sequence of token types that starts a Program, before
\* the closing parentheses and EOF: nothing, the rest of a call, a call, or
\* an argument.
Completions ==
    { << >>,
      << "RPAREN" >>,
      << "LPAREN", "RPAREN" >>,
      << "IDENTIFIER", "LPAREN", "RPAREN" >>,
      << "STRING_LITERAL" >> }

\* Whether the token types t start a sequence the grammar derives.
Viable(t) ==
    IF t # << >> /\ t[Len(t)] = "EOF" THEN Derivable(t)
    ELSE \E c \in Completions : \E n \in 0..(Len(t) + 1) :
             Derivable(t \o c \o RParens(n) \o << "EOF" >>)

\* The indices of the tokens at which the input stops conforming.
Offending(toks) ==
    { j \in 1..Len(toks) : ~Viable(SubSeq(Types(toks), 1, j)) }

\* C32: every ParserError thrown by parse() carries a token, and it is the
\* offending one: the first token of the input, as the Lexer returns it with
\* type, value and position, up to which the tokens start nothing the
\* grammar derives.
C32_ErrorTokenIsOffending ==
    (phase = "parsed" /\ ~parsed.ok /\ parsed.class = "ParserError")
        => /\ Offending(InputTokens.tokens) # { }
           /\ \E j \in Offending(InputTokens.tokens) :
                  /\ \A i \in Offending(InputTokens.tokens) : j <= i
                  /\ parsed.token = InputTokens.tokens[j]

\* A ParserError was thrown at the fifth token or later, which is not EOF.
C32_Witness ==
    /\ phase = "parsed"
    /\ ~parsed.ok
    /\ parsed.class = "ParserError"
    /\ parsed.token.type # TokenType.EOF
    /\ Len(InputTokens.tokens) >= 5
    /\ parsed.token = InputTokens.tokens[5]

\* ------------------------------------------------- a group left unclosed

\* The pairs <<k, j>> of a grouping parenthesis, token k, whose expression
\* is complete and is followed by token j, which is neither the closing
\* parenthesis nor a logical operator.
UnclosedGroups(toks) ==
    { p \in (1..Leading(toks, 1)) \X (1..Len(toks)) :
        /\ p[2] \in ExpressionEnds(Types(toks), p[1] + 1)
        /\ toks[p[2]].type # TokenType.RParen
        /\ ~IsAndOr(toks[p[2]]) }

\* C33: when a parenthesized expression is missing its closing ')', as in
\* (eq("a", "b"), parse() fails with "Expected ')' to close expression
\* started at position <p>." where <p> is the position of the parenthesis
\* that started the expression, not that of the token found in place of ')'.
C33_CloseReportsStart ==
    phase = "parsed"
        => \A p \in UnclosedGroups(InputTokens.tokens) :
               Failed(SayCloseExpression(InputTokens.tokens[p[1]].position))

\* ------------------------------------------------- the cursor of the Lexer

\* The tokens other than EOF among what the calls since the last reset()
\* returned.
IsLexeme(result) ==
    result.ok /\ result.token.type # "EOF"

\* C34: the cursor of the Lexer is always between 0 and the length of the
\* input; a nextToken() call never moves it backward, whether it returns or
\* fails, and whether or not it scans a backslash at the end of the input;
\* only reset() moves it backward; and each token other than EOF that
\* nextToken() returns has a position beyond those of the tokens returned
\* since the last reset().
C34_CursorInBoundsAndMonotonic ==
    /\ [] (0 <= currentPosition /\ currentPosition <= Len(input))
    /\ [][ /\ Called => currentPosition' >= currentPosition
           /\ currentPosition' < currentPosition => resets' = resets + 1
           /\ (Called /\ IsLexeme(Result))
                 => \A k \in 1..Len(produced) :
                        IsLexeme(produced[k])
                            => produced[k].token.position
                                   < Result.token.position ]_vars

\* A literal that ends the input with an escaped quote was scanned after two
\* tokens, and left the cursor at the end; that after a reset().
C34_Witness ==
    /\ phase = "lexing"
    /\ input = << "a", "(", QUOTE, "a", BACKSLASH, QUOTE >>
    /\ resets = 1
    /\ Len(produced) = 3
    /\ IsLexeme(produced[1])
    /\ IsLexeme(produced[2])
    /\ ~produced[3].ok
    /\ currentPosition = Len(input)

\* C35: a nextToken() call that fails does not restore the Lexer: it leaves
\* the cursor at the end of the input, not at the opening quote, and the
\* nextToken() call made next, with no reset() between, returns EOF at
\* position = the input length instead of failing again.
C35_FailureLeavesCursorAtEnd ==
    [][ Called =>
          /\ ~Result.ok => currentPosition' = Len(input)
          /\ (produced # << >> /\ ~produced[Len(produced)].ok)
                => /\ currentPosition = Len(input)
                   /\ Result = EofToken(input) ]_vars

\* After two tokens a call failed at a literal, and the call after it
\* returned EOF.
C35_Witness ==
    /\ phase = "lexing"
    /\ input = << "a", "(", QUOTE, "a", BACKSLASH, QUOTE >>
    /\ Len(produced) = 4
    /\ ~produced[3].ok
    /\ produced[3].message = SayUnclosed(2)
    /\ produced[4] = EofToken(input)

\* ------------------------------------- a Lexer/Parser pair used again

\* The empty-input error over in.
EmptyInputError(in) ==
    [ ok |-> FALSE, class |-> "ParserError",
      message |-> "Unexpected token '' (type EOF). Expected a function call or a '('.",
      token |-> [ type |-> "EOF", value |-> "", position |-> Len(in) ] ]

\* C36: parse() takes its lookahead from the Lexer anew on every call: a
\* parse() that follows lexer.reset() on a pair that was used before,
\* whether an earlier parse() succeeded or failed, gives what a fresh pair
\* over the same input gives; a parse() that follows a successful parse()
\* with no reset() between fails with the empty-input error, the Lexer being
\* at EOF.
C36_ParseStartsAnew ==
    \A k \in 2..Len(instances[1].history) :
        instances[1].history[k].op = "parse"
            => /\ instances[1].history[k - 1].op = "reset"
                  => instances[1].history[k].result
                         = ParseOf(instances[1].input)
               /\ ( /\ instances[1].history[k - 1].op = "parse"
                    /\ instances[1].history[k - 1].result.ok )
                  => instances[1].history[k].result
                         = EmptyInputError(instances[1].input)

\* A pair whose parse() returned a Program was reset and parsed again.
C36_Witness ==
    /\ phase = "reuse"
    /\ Len(instances[1].history) >= 3
    /\ instances[1].history[1].op = "parse"
    /\ instances[1].history[1].result.ok
    /\ instances[1].history[2].op = "reset"
    /\ instances[1].history[3].op = "parse"
    /\ instances[1].history[3].result.ok
====
